---- MODULE Spec2Model ----
(***************************************************************************)
(* A model of git-phabricator-mirror: the reconciliation of git-appraise   *)
(* reviews (git notes) with Phabricator Differential revisions.            *)
(*                                                                         *)
(*   mirror/arcanist (src/unnamed/part_000): EnsureRequestExists and the   *)
(*       conduit calls it issues;                                          *)
(*   mirror (src/unnamed/part_001): mirrorRepoToReview, one pass over a    *)
(*       repository;                                                       *)
(*   mirror/review: Overlaps, QuoteDescription (exercised by               *)
(*       src/mirror/review/comment_test.go).                               *)
(***************************************************************************)
EXTENDS Integers, Sequences, FiniteSets, TLC

VARIABLES repoPath, syncToRemote, local, origin, remote, diffs, closedRevisionsMap, processedStates, existingComments, openReviews, pc, todo, notes, stateHash, history, pending, calls, failedPosts, before, closeCalls, appended, trail, passes, budget, faults, probe

vars == <<repoPath, syncToRemote, local, origin, remote, diffs, closedRevisionsMap, processedStates, existingComments, openReviews, pc, todo, notes, stateHash, history, pending, calls, failedPosts, before, closeCalls, appended, trail, passes, budget, faults, probe>>

(***************************************************************************)
(* Program constants.                                                      *)
(***************************************************************************)
differentialTitleLengthLimit == 256

differentialNeedsReviewStatus == "0"

differentialClosedStatus == "3"

differentialAbandonedStatus == "4"

\* "/var/repo/", the directory Phabricator keeps its repositories in.  A
\* path is the sequence of its segments; the prefix ends in a slash, so a
\* path has it when a segment follows.
defaultRepoDirPrefix == <<"var", "repo">>

(***************************************************************************)
(* Bounds of the model.                                                    *)
(***************************************************************************)
\* How far past the title limit the first lines of the descriptions tried go.
TitleOverrun == 4

\* The number of top-level threads given to FilterOverlapping.
MaxThreads == 2

\* The number of events from outside the process: changes people make to the
\* repository and to Differential, and restarts of the process.
MaxEvents == 2

\* The number of events from outside the process where the notes are
\* synchronised with origin and only comments are written.
MaxSyncEvents == 3

\* The number of answers that are not the plain one: a call Differential
\* answers with an error, without a diff or without a user, and a git
\* command that fails.
MaxFaults == 1

\* The number of turns of the loop of main.
MaxPasses == 3

(***************************************************************************)
(* Text.  A string is a sequence of one-character strings; len() and the   *)
(* slices of the source count the elements.                                *)
(***************************************************************************)
NewLine == "\n"

Ellipsis == <<".", ".", ".">>

\* strings.Split(s, "\n")[0]: the text before the first line break.
FirstLine(s) ==
    LET breaks == {i \in 1..Len(s) : s[i] = NewLine}
    IN  IF breaks = {} THEN s
        ELSE SubSeq(s, 1, (CHOOSE i \in breaks : \A j \in breaks : i <= j) - 1)

MutTruncatedTitle(title) ==
    IF Len(title) > differentialTitleLengthLimit
    THEN SubSeq(title, 1, differentialTitleLengthLimit - 3) \o Ellipsis
    ELSE title

\* fields.Title after "Truncate the title if it is too long".
TruncatedTitle(title) ==
    IF Len(title) > differentialTitleLengthLimit
    THEN SubSeq(title, 1, differentialTitleLengthLimit - 4) \o Ellipsis
    ELSE title

MutRevisionFields(description) ==
    LET title == TruncatedTitle(FirstLine(description))
    IN  [Title |-> title,
         Summary |-> IF Len(FirstLine(description)) > differentialTitleLengthLimit THEN description ELSE <<>>]

\* The title and summary createDifferentialRevision sends; an empty summary
\* is omitted from the request (json omitempty).
RevisionFields(description) ==
    LET title == TruncatedTitle(FirstLine(description))
    IN  [Title |-> title,
         Summary |-> IF title # description THEN description ELSE <<>>]

(***************************************************************************)
(* Comments (git-appraise comment.Comment) and their deduplication.        *)
(* A Location is a record; NoLocation stands for the nil pointer.  Line 0  *)
(* stands for a nil Range.  Resolved is "nil", "true" or "false".          *)
(***************************************************************************)
NoLocation == [Commit |-> "nil", Path |-> "", Line |-> 0]

NewComment(ts, author, loc, description, resolved) ==
    [Timestamp |-> ts, Author |-> author, Location |-> loc, Description |-> description, Resolved |-> resolved]

\* comment.Write: the note of a comment, its json object.  A field with
\* the empty value (the empty text, the nil pointer, no range) has no
\* member (omitempty), and a location is an object of its own.  Timestamp
\* 0 stands for the empty text.
Write(c) ==
    LET empty    == NewComment(0, "", NoLocation, <<>>, "nil")
        nowhere  == [Commit |-> "", Path |-> "", Line |-> 0]
        location == [f \in {g \in DOMAIN c.Location : c.Location[g] # nowhere[g]} |-> c.Location[f]]
    IN  [f \in {g \in DOMAIN c : c[g] # empty[g]} |-> IF f = "Location" THEN location ELSE c[f]]

\* comment.Parse: the comment of a note; a member the note lacks gives the
\* empty value.
Parse(note) ==
    LET empty   == NewComment(0, "", NoLocation, <<>>, "nil")
        nowhere == [Commit |-> "", Path |-> "", Line |-> 0]
        member(object, f, default) == IF f \in DOMAIN object THEN object[f] ELSE default[f]
    IN  NewComment(member(note, "Timestamp", empty),
                   member(note, "Author", empty),
                   IF "Location" \in DOMAIN note
                   THEN [Commit |-> member(note.Location, "Commit", nowhere),
                         Path   |-> member(note.Location, "Path", nowhere),
                         Line   |-> member(note.Location, "Line", nowhere)]
                   ELSE NoLocation,
                   member(note, "Description", empty),
                   member(note, "Resolved", empty))

\* The quoted rendering of a comment mirrored into the other system.
QuoteDescription(c) == <<c.Author, "originally said:">> \o c.Description

MutOverlaps(a, b) ==
    /\ a.Resolved = b.Resolved
    /\ \/ b.Description = QuoteDescription(a)
       \/ a.Timestamp = b.Timestamp /\ a.Description = b.Description

MutOverlapsNoQuote(a, b) ==
    a.Resolved = b.Resolved /\ a.Timestamp = b.Timestamp /\ a.Description = b.Description

\* Two comments are the same logical comment.  Section 4.3 of the
\* specification (the resolved flags are both absent or both present and
\* equal, and the description of one is the quotation of the other's or
\* the descriptions are equal, at the same timestamp), with the cases the
\* tests of the package require: the quoted copy of a comment overlaps it
\* whatever their timestamps (TestOverlaps), and the quoted copy at the
\* same file location overlaps whatever the resolved flags
\* (TestFilterOverlapping: quotedComment is dropped, misQuotedReject is
\* kept).
Overlaps(a, b) ==
    LET quoted == \/ b.Description = QuoteDescription(a)
                  \/ a.Description = QuoteDescription(b)
    IN  \/ /\ a.Resolved = b.Resolved
           /\ quoted \/ (a.Timestamp = b.Timestamp /\ a.Description = b.Description)
        \/ quoted /\ a.Location = b.Location /\ a.Location.Path # ""

overlapsAny(c, existing) == \E i \in 1..Len(existing) : Overlaps(c, existing[i])

\* hasOverlap of the mirror package: the comment overlaps a comment of the
\* threads or of their replies.
RECURSIVE hasOverlap(_, _)
hasOverlap(newComment, threads) ==
    \E i \in 1..Len(threads) :
        \/ Overlaps(newComment, threads[i].Comment)
        \/ hasOverlap(newComment, threads[i].Children)

MutFilterOverlapping(threads, existing) ==
    SelectSeq([i \in 1..Len(threads) |-> threads[i].Comment], LAMBDA c : ~overlapsAny(c, existing))

\* FilterOverlapping of the review package: the comments of the threads,
\* each before its replies, that overlap no existing comment.
RECURSIVE FilterOverlapping(_, _)
FilterOverlapping(threads, existing) ==
    IF threads = <<>> THEN <<>>
    ELSE (IF overlapsAny(Head(threads).Comment, existing) THEN <<>> ELSE <<Head(threads).Comment>>)
         \o FilterOverlapping(Head(threads).Children, existing)
         \o FilterOverlapping(Tail(threads), existing)

(***************************************************************************)
(* The local repository: its reviews and their commits.                    *)
(***************************************************************************)
\* review.ListAll: the reviews of the repository, by revision (the first
\* commit of the review).
ListAll == <<"r1", "r2">>

Revisions == {ListAll[i] : i \in 1..Len(ListAll)}

NoCommit == ""

\* repo.GetCommitTime, as an integer.
GetCommitTime(commit) == IF commit \in Revisions THEN 1 ELSE 2

\* request.Description of a review.
DescriptionOf(revision) ==
    IF revision = "r1"
    THEN <<"F", "i", "x", NewLine, "D", "e", "t", "a", "i", "l", "s">>
    ELSE <<"T", "i", "d", "y">>

\* request.Reviewers and request.Requester of a review.
ReviewersOf(revision) == IF revision = "r1" THEN <<"bob">> ELSE <<>>

RequesterOf(revision) == IF revision = "r1" THEN "alice" ELSE ""

\* request.TargetRef of a review.
TargetRefOf(revision) == "refs/heads/master"

RobotAuthor == "bot"

Thread(c, children) == [Comment |-> c, Children |-> children]

\* The comments the authors of a review may write on it: a comment on a
\* line of a file, a reply to it that resolves the thread, and a comment on
\* the review as a whole.
FileComment(revision) ==
    NewComment(1, "alice", [Commit |-> revision, Path |-> "hello.txt", Line |-> 42], <<"typo">>, "nil")

ReplyComment(revision) ==
    NewComment(2, "bob", NoLocation, <<"done">>, "true")

ReviewComment(revision) ==
    NewComment(3, "alice", [Commit |-> revision, Path |-> "", Line |-> 0], <<"lgtm">>, "true")

\* A comment a person writes on the review in another clone and pushes to
\* origin.
OriginComment(revision) ==
    NewComment(4, "dave", [Commit |-> revision, Path |-> "", Line |-> 0], <<"ship">>, "nil")

\* A comment a person writes in Differential.
HumanComment(ts) == NewComment(ts, "carol", NoLocation, <<"nit">>, "nil")

\* The failure of Details, GetBaseCommit, GetHeadCommit or MergeBase for a
\* review.
Failures == {"details", "base", "head", "mergebase"}

\* The reviews people work on; the others are submitted already.
Active == {"r1"}

InitialReview(revision) ==
    [Submitted |-> (revision \notin Active), Head |-> revision, TargetRef |-> TargetRefOf(revision), Failure |-> "none", Report |-> {},
     Lint |-> {}, Comments |-> <<>>]

\* review.GetBaseCommit: the commit the review branched from.
GetBaseCommit(revision) == <<"base", revision>>

\* repo.MergeBase(req.TargetRef, headRevision).
MergeBase(targetRef, headRevision) == <<"merge-base", targetRef, headRevision>>

\* repo.GetRepoStateHash: a token that differs whenever the refs or the
\* notes of the repository differ.
GetRepoStateHash(repo) == repo

NoHash == <<>>
(***************************************************************************)
(* Differential.  A revision is a record [ID, Status, Hashes, Diffs,       *)
(* Title, Summary, Reviewers, CCs, Comments]; its ID is its index in       *)
(* remote.  diffs[i] is the last commit of diff i.  A call is a record     *)
(* [method, rev, arg, request]: request holds the fields of the request    *)
(* where a property is about them.                                         *)
(***************************************************************************)
CallWith(method, rev, arg, request) == [method |-> method, rev |-> rev, arg |-> arg, request |-> request]

Call(method, rev, arg) == CallWith(method, rev, arg, <<>>)

Mutations == {"differential.close", "differential.creatediff", "differential.createrevision", "differential.updaterevision", "differential.setdiffproperty", "differential.createinline", "differential.createcomment"}

unitDiffPropertyName == "arc:unit"

lintDiffPropertyName == "arc:lint"

MutIsClosed(differentialReview) == differentialReview.Status = differentialClosedStatus

isClosed(differentialReview) ==
    \/ differentialReview.Status = differentialClosedStatus
    \/ differentialReview.Status = differentialAbandonedStatus

\* The loop over differentialReview.Hashes: a commit hash of the revision.
HasHash(differentialReview, commit) ==
    \E i \in 1..Len(differentialReview.Hashes) : differentialReview.Hashes[i] = commit

\* The fields of a revision that a DifferentialReview of a query response
\* carries.
DifferentialReview(revisionRecord) ==
    [ID |-> revisionRecord.ID, Title |-> revisionRecord.Title, Status |-> revisionRecord.Status,
     Reviewers |-> revisionRecord.Reviewers, Hashes |-> revisionRecord.Hashes, Diffs |-> revisionRecord.Diffs]

\* The answers of Differential to a call: a response without error, a
\* response with a non-empty Error field, for differential.creatediff a
\* response without a diff and without error, and for user.query a
\* response without a user and without error.
AnswersTo(method) ==
    IF method = "differential.creatediff" THEN {"ok", "error", "nodiff"}
    ELSE IF method = "user.query" THEN {"ok", "error", "nouser"}
    ELSE {"ok", "error"}

Response(error, value) == [error |-> error, value |-> value]

RECURSIVE CountComments(_)
CountComments(revisions) ==
    IF revisions = <<>> THEN 0 ELSE Len(Head(revisions).Comments) + CountComments(Tail(revisions))

\* The time Differential stamps on a comment it stores.
RemoteTime(revisions) == 100 + CountComments(revisions)

MutUpdateRevisionRequest(id, diffID) ==
    [id |-> id, diffid |-> diffID, fields |-> <<[name |-> "Title", value |-> <<>>]>>]

\* differentialUpdateRevisionRequest{ID, DiffID}: Fields is left empty.
UpdateRevisionRequest(id, diffID) == [id |-> id, diffid |-> diffID, fields |-> <<>>]

\* Differential sets the fields of a revision that have an entry in the
\* Fields of an update; the others are left unchanged.
RECURSIVE SetFields(_, _)
SetFields(revisionRecord, fields) ==
    IF fields = <<>> THEN revisionRecord
    ELSE SetFields([revisionRecord EXCEPT ![Head(fields).name] = Head(fields).value], Tail(fields))

\* differential.updaterevision: the diff is attached to the revision, whose
\* hashes then hold the last commit of the diff.
UpdateRevision(revisions, ds, request) ==
    [revisions EXCEPT ![request.id] =
        [SetFields(@, request.fields) EXCEPT !.Diffs = Append(@, request.diffid),
                                             !.Hashes = Append(@, ds[request.diffid])]]

\* Differential serves a call with the answer a: the revisions and diffs it
\* holds afterwards and its response.  A response with an error leaves
\* Differential as it was and carries an empty Response.
Serve(revisions, ds, call, a) ==
    LET answered(value) == [remote |-> revisions, diffs |-> ds, response |-> Response(a = "error", value)]
        q == call.request
    IN  CASE call.method = "differential.query" ->
               answered(IF a = "error" THEN <<>>
                        ELSE SelectSeq([i \in 1..Len(revisions) |-> DifferentialReview(revisions[i])],
                                       LAMBDA d : HasHash(d, call.arg)))
          [] call.method = "differential.close" ->
               IF a = "error" THEN answered(0)
               ELSE [remote |-> [revisions EXCEPT ![call.rev].Status = differentialClosedStatus],
                     diffs |-> ds, response |-> Response(FALSE, 0)]
          [] call.method = "differential.creatediff" ->
               IF a # "ok" THEN answered(0)
               ELSE [remote |-> revisions, diffs |-> Append(ds, q.head), response |-> Response(FALSE, Len(ds) + 1)]
          [] call.method = "user.query" ->
               answered(IF a = "ok" THEN <<"PHID-" \o call.arg>> ELSE <<>>)
          [] call.method = "differential.createrevision" ->
               IF a = "error" THEN answered(0)
               ELSE [remote |-> Append(revisions,
                                       [ID |-> Len(revisions) + 1, Status |-> differentialNeedsReviewStatus,
                                        Hashes |-> <<ds[q.diffid]>>, Diffs |-> <<q.diffid>>,
                                        Title |-> q.fields.Title, Summary |-> q.fields.Summary,
                                        Reviewers |-> q.fields.Reviewers, CCs |-> q.fields.CCs,
                                        Comments |-> <<>>]),
                     diffs |-> ds, response |-> Response(FALSE, Len(revisions) + 1)]
          [] call.method = "differential.updaterevision" ->
               IF a = "error" THEN answered(0)
               ELSE [remote |-> UpdateRevision(revisions, ds, q), diffs |-> ds, response |-> Response(FALSE, 0)]
          [] call.method = "differential.querydiffs" ->
               answered(IF a = "error" THEN NoCommit ELSE ds[call.arg])
          [] call.method = "differential.setdiffproperty" -> answered(0)
          [] call.method = "LoadComments" ->
               answered(IF a = "error" THEN <<>> ELSE revisions[call.rev].Comments)
          [] call.method = "differential.createinline" ->
               IF a = "error" THEN answered(0)
               ELSE [remote |-> [revisions EXCEPT ![call.rev].Comments =
                                    Append(@, NewComment(RemoteTime(revisions), RobotAuthor,
                                                         [Commit |-> ds[q.DiffID], Path |-> q.FilePath,
                                                          Line |-> q.LineNumber],
                                                         q.Content, "nil"))],
                     diffs |-> ds, response |-> Response(FALSE, 0)]
          [] call.method = "differential.createcomment" -> answered(0)

(***************************************************************************)
(* One run of EnsureRequestExists.  The run w is the function seen from    *)
(* its caller: resp holds what arc and git answered so far, in order, and  *)
(* the choices of the runtime; the code is followed along resp and, at its *)
(* end, stops at the next command it runs, a call of arc or a read of the  *)
(* repository by git, which is pending: the process waits for the command. *)
(* The choices of the runtime made past the end of resp are kept in rec.   *)
(* calls is the log of the calls of arc answered, each with its answer,    *)
(* without the reads of readDiff and LoadComments; answers has the answer  *)
(* to every call of arc.                                                   *)
(***************************************************************************)
\* The commands of git that read the repository in EnsureRequestExists.
Reads == {"GetBaseCommit", "GetHeadCommit", "MergeBase", "GetNotes(ci)", "GetNotes(analyses)"}

\* What git answers a read of the review with, from the repository as it
\* is at that moment: an error, or the commit or whether the commit has a
\* note under the ref.
ReadRepository(repo, revision, call) ==
    LET r == repo[revision]
    IN  CASE call.method = "GetBaseCommit" -> [error |-> r.Failure = "base", value |-> GetBaseCommit(revision)]
          [] call.method = "GetHeadCommit" -> [error |-> r.Failure = "head", value |-> r.Head]
          [] call.method = "MergeBase" ->
               [error |-> r.Failure = "mergebase", value |-> MergeBase(call.arg[1], call.arg[2])]
          [] call.method = "GetNotes(ci)" -> [error |-> FALSE, value |-> call.arg \in r.Report]
          [] call.method = "GetNotes(analyses)" -> [error |-> FALSE, value |-> call.arg \in r.Lint]

NewRun(answered, closed) ==
    [resp |-> answered, rec |-> <<>>, pending |-> <<>>, last |-> Response(FALSE, 0), calls |-> <<>>, answers |-> <<>>,
     closedRevisionsMap |-> closed, panic |-> FALSE, logged |-> {}, fatal |-> {}]

\* The run waits for arc or has ended in a panic.
Stopped(w) == w.panic \/ w.pending # <<>>

\* The entry of the log for a call and its response.
Answered(call, response) ==
    [method |-> call.method,
     rev |-> IF call.method = "differential.createrevision" THEN response.value ELSE call.rev,
     arg |-> call.arg, request |-> call.request,
     answer |-> IF response.error THEN "error"
                ELSE IF call.method = "differential.creatediff" /\ response.value = 0 THEN "nodiff"
                ELSE IF call.method = "user.query" /\ response.value = <<>> THEN "nouser"
                ELSE "ok"]

\* runArcCommandOrDie: the response to the call is in w.last.
runArcCommandOrDie(w, call) ==
    IF Stopped(w) THEN w
    ELSE IF w.resp = <<>> THEN [w EXCEPT !.pending = <<call>>]
    ELSE [w EXCEPT !.resp = Tail(@), !.last = Head(w.resp),
                   !.calls = IF call.method \in {"differential.querydiffs", "LoadComments"} THEN @ ELSE Append(@, Answered(call, Head(w.resp))),
                   !.answers = Append(@, [method |-> call.method, answer |-> Answered(call, Head(w.resp)).answer])]

\* A read of the repository by a command of git: its answer is in w.last.
Read(w, call) ==
    IF Stopped(w) THEN w
    ELSE IF w.resp = <<>> THEN [w EXCEPT !.pending = <<call>>]
    ELSE [w EXCEPT !.resp = Tail(@), !.last = Head(w.resp)]

\* The choice of the runtime in a range over a map: the value is in w.last.
Range(w, value) ==
    IF Stopped(w) THEN w
    ELSE IF w.resp = <<>> THEN [w EXCEPT !.rec = Append(@, Response(FALSE, value)), !.last = Response(FALSE, value)]
    ELSE [w EXCEPT !.resp = Tail(@), !.last = Head(w.resp)]

\* log.Print of the error message of a response: the process goes on.
LogError(w, method) == [w EXCEPT !.logged = @ \cup {method}]

\* log.Panic: the process ends.
Panic(w, method) == [w EXCEPT !.panic = TRUE, !.fatal = @ \cup {method}]

\* differential.query filtered by a commit hash.  The Error field of the
\* response is not read.
listDifferentialReviewsOrDie(w, revision) ==
    runArcCommandOrDie(w, Call("differential.query", 0, revision))

\* differential.query filtered by status-open; the Error field is not read
\* here either.
ListOpenReviews(revisions, a) ==
    IF a = "error" THEN <<>>
    ELSE SelectSeq([i \in 1..Len(revisions) |-> DifferentialReview(revisions[i])], LAMBDA d : ~isClosed(d))

\* DifferentialReview.close: an error answer is logged.
close(w, differentialReview) ==
    LET v == runArcCommandOrDie(w, Call("differential.close", differentialReview.ID, 0))
    IN  IF Stopped(v) THEN v
        ELSE IF v.last.error THEN LogError(v, "differential.close")
        ELSE v

\* createDifferentialDiff for the commits from base to head: w.last holds
\* the id of the new diff, or 0 when Differential produces no diff, and
\* the error.
createDifferentialDiff(w, rev, base, head) ==
    runArcCommandOrDie(w, CallWith("differential.creatediff", rev, head, [base |-> base, head |-> head]))

\* queryUser: the PHID of a user (w.last.value holds it), no user, or an
\* error.
queryUser(w, user) == runArcCommandOrDie(w, Call("user.query", 0, user))

\* The loop over req.Reviewers (and the requester): the users are looked
\* up; an error is logged and the user left out, and a user Phabricator
\* does not know is left out without a word.
RECURSIVE ResolveUsers(_, _)
ResolveUsers(w, users) ==
    IF users = <<>> \/ Stopped(w) THEN [w |-> w, phids |-> <<>>]
    ELSE LET v    == queryUser(w, Head(users))
             rest == ResolveUsers(IF Stopped(v) THEN v
                                  ELSE IF v.last.error THEN LogError(v, "user.query")
                                  ELSE v,
                                  Tail(users))
         IN  [w |-> rest.w, phids |-> (IF Stopped(v) THEN <<>> ELSE v.last.value) \o rest.phids]

\* createDifferentialRevision: w.last holds the error Differential answers
\* with.
createDifferentialRevision(w, revision, diffID) ==
    LET fields    == RevisionFields(DescriptionOf(revision))
        reviewers == ResolveUsers(w, ReviewersOf(revision))
        ccs       == ResolveUsers(reviewers.w,
                                  IF RequesterOf(revision) # "" THEN <<RequesterOf(revision)>> ELSE <<>>)
    IN  runArcCommandOrDie(ccs.w,
            CallWith("differential.createrevision", 0, diffID,
                     [diffid |-> diffID,
                      fields |-> [Title |-> fields.Title, Summary |-> fields.Summary,
                                  Reviewers |-> reviewers.phids, CCs |-> ccs.phids]]))

\* findCommitForDiff: the last commit of the diff, or "" when readDiff
\* returns an error.
findCommitForDiff(w, diffID) ==
    LET v == runArcCommandOrDie(w, Call("differential.querydiffs", 0, diffID))
    IN  IF Stopped(v) THEN v
        ELSE IF v.last.error THEN [v EXCEPT !.last = Response(FALSE, NoCommit)]
        ELSE v

\* The lastCommit of each diff of the revision, in the order of its diffs.
RECURSIVE lastCommits(_, _)
lastCommits(w, diffIDs) ==
    IF diffIDs = <<>> \/ Stopped(w) THEN [w |-> w, commits |-> <<>>]
    ELSE LET v    == findCommitForDiff(w, Head(diffIDs))
             rest == lastCommits(v, Tail(diffIDs))
         IN  [w |-> rest.w, commits |-> (IF Stopped(v) THEN <<>> ELSE <<v.last.value>>) \o rest.commits]

\* A Go map as a function on its keys.
Put(map, key, value) == [k \in (DOMAIN map) \cup {key} |-> IF k = key THEN value ELSE map[k]]

\* map[key], with the zero value 0 for a missing key.
Get(map, key) == IF key \in DOMAIN map THEN map[key] ELSE 0

\* commitToDiffMap of mirrorCommentsIntoReview: each last commit mapped to
\* the latest diff that has it.
RECURSIVE commitToDiffMap(_, _, _)
commitToDiffMap(diffIDs, commits, map) ==
    IF diffIDs = <<>> \/ commits = <<>> THEN map
    ELSE commitToDiffMap(Tail(diffIDs), Tail(commits), Put(map, Head(commits), Head(diffIDs)))

RECURSIVE buildCommentRequestsForChildren(_, _, _, _, _, _)
\* The inline requests of a thread: its comment unless it overlaps an
\* existing one, then the requests of its replies, all at the place of the
\* root.
buildCommentRequestsForThread(id, existing, thread, diffID, path, lineNumber) ==
    (IF ~overlapsAny(thread.Comment, existing)
     THEN <<[RevisionID |-> id, DiffID |-> diffID, FilePath |-> path, LineNumber |-> lineNumber,
             Content |-> QuoteDescription(thread.Comment)]>>
     ELSE <<>>)
    \o buildCommentRequestsForChildren(id, existing, thread.Children, diffID, path, lineNumber)

buildCommentRequestsForChildren(id, existing, children, diffID, path, lineNumber) ==
    IF children = <<>> THEN <<>>
    ELSE buildCommentRequestsForThread(id, existing, Head(children), diffID, path, lineNumber)
         \o buildCommentRequestsForChildren(id, existing, Tail(children), diffID, path, lineNumber)

RECURSIVE buildInlineRequests(_, _, _, _)
MutBuildInlineRequests(d, threads, existing, map) ==
    IF threads = <<>> THEN <<>>
    ELSE LET c      == Head(threads).Comment
             diffID == Get(map, c.Location.Commit)
             line   == IF c.Location.Line # 0 THEN c.Location.Line ELSE 1
         IN  (IF c.Location # NoLocation /\ diffID # 0
              THEN buildCommentRequestsForThread(d.ID, existing, Head(threads), diffID, c.Location.Path, line)
              ELSE <<>>)
             \o buildInlineRequests(d, Tail(threads), existing, map)

\* The inline requests of buildCommentRequests: those of the threads rooted
\* at a line of a file whose commit has a diff in the revision.
buildInlineRequests(d, threads, existing, map) ==
    IF threads = <<>> THEN <<>>
    ELSE LET c      == Head(threads).Comment
             diffID == Get(map, c.Location.Commit)
             line   == IF c.Location.Line # 0 THEN c.Location.Line ELSE 1
         IN  (IF c.Location # NoLocation /\ c.Location.Path # "" /\ diffID # 0
              THEN buildCommentRequestsForThread(d.ID, existing, Head(threads), diffID, c.Location.Path, line)
              ELSE <<>>)
             \o buildInlineRequests(d, Tail(threads), existing, map)

MutBuildCommentRequests(inlineRequests, d) ==
    <<[RevisionID |-> d.ID, Action |-> "comment", AttachInlines |-> TRUE]>>

\* The comment requests of buildCommentRequests: one, attaching the
\* inlines, when there is an inline request.
buildCommentRequests(inlineRequests, d) ==
    IF Len(inlineRequests) > 0
    THEN <<[RevisionID |-> d.ID, Action |-> "comment", AttachInlines |-> TRUE]>>
    ELSE <<>>

\* The loop over inlineRequests: differential.createinline for each; an
\* error answer is logged.
RECURSIVE PostInlines(_, _)
PostInlines(w, requests) ==
    IF requests = <<>> \/ Stopped(w) THEN w
    ELSE LET q == Head(requests)
             v == runArcCommandOrDie(w, CallWith("differential.createinline", q.RevisionID, q.Content, q))
         IN  PostInlines(IF Stopped(v) THEN v
                         ELSE IF v.last.error THEN LogError(v, "differential.createinline")
                         ELSE v,
                         Tail(requests))

\* The loop over commentRequests: differential.createcomment for each; an
\* error answer is logged.
RECURSIVE PostComments(_, _)
PostComments(w, requests) ==
    IF requests = <<>> \/ Stopped(w) THEN w
    ELSE LET v == runArcCommandOrDie(w, CallWith("differential.createcomment", Head(requests).RevisionID, 0,
                                                 Head(requests)))
         IN  PostComments(IF Stopped(v) THEN v
                          ELSE IF v.last.error THEN LogError(v, "differential.createcomment")
                          ELSE v,
                          Tail(requests))

\* setDiffProperty: differential.setdiffproperty; w.last holds the error.
setDiffProperty(w, d, diffID, name) ==
    runArcCommandOrDie(w, CallWith("differential.setdiffproperty", d.ID, diffID, [name |-> name]))

\* reportUnitResults for a report that gives a property: an error of
\* setDiffProperty is a panic.
reportUnitResults(w, d, diffID) ==
    LET v == setDiffProperty(w, d, diffID, unitDiffPropertyName)
    IN  IF Stopped(v) THEN v
        ELSE IF v.last.error THEN Panic(v, "differential.setdiffproperty")
        ELSE v

\* reportLintResults for results that give a property: an error of
\* setDiffProperty is a panic.
reportLintResults(w, d, diffID) ==
    LET v == setDiffProperty(w, d, diffID, lintDiffPropertyName)
    IN  IF Stopped(v) THEN v
        ELSE IF v.last.error THEN Panic(v, "differential.setdiffproperty")
        ELSE v

\* The key a range over the map yields next: any of those left; pick is
\* the choice of the runtime, counted along the diffs the keys map to.
Yield(map, left, pick) ==
    LET k == ((pick - 1) % Cardinality(left)) + 1
    IN  CHOOSE c \in left : Cardinality({x \in left : map[x] <= map[c]}) = k

\* mirrorStatusesForEachCommit: for each commit of the map, in the order
\* the runtime yields them, the latest CI report of the commit is set as
\* the unit property of its diff and then its latest static analysis
\* report as the lint property.  pick is the choice of the runtime.
RECURSIVE mirrorStatusesForEachCommit(_, _, _, _, _)
mirrorStatusesForEachCommit(w, d, map, left, pick) ==
    IF left = {} \/ Stopped(w) THEN w
    ELSE LET ranged     == Range(w, Yield(map, left, pick))
             commitHash == ranged.last.value
             ciNotes    == Read(ranged, Call("GetNotes(ci)", 0, commitHash))
             unit       == IF Stopped(ciNotes) THEN ciNotes
                           ELSE IF ciNotes.last.value THEN reportUnitResults(ciNotes, d, map[commitHash])
                           ELSE ciNotes
             analyses   == Read(unit, Call("GetNotes(analyses)", 0, commitHash))
             lint       == IF Stopped(analyses) THEN analyses
                           ELSE IF analyses.last.value THEN reportLintResults(analyses, d, map[commitHash])
                           ELSE analyses
         IN  mirrorStatusesForEachCommit(lint, d, map, left \ {commitHash}, pick)

\* DifferentialReview.LoadComments: the comments Differential holds for the
\* revision, in w.last; an error answer ends the process.
LoadComments(w, differentialReview) ==
    LET v == runArcCommandOrDie(w, Call("LoadComments", differentialReview.ID, 0))
    IN  IF Stopped(v) THEN v
        ELSE IF v.last.error THEN Panic(v, "LoadComments")
        ELSE v

mirrorCommentsIntoReview(w, d, r, pick) ==
    LET found    == lastCommits(w, d.Diffs)
        map      == commitToDiffMap(d.Diffs, found.commits, <<>>)
        v        == mirrorStatusesForEachCommit(found.w, d, map, DOMAIN map, pick)
        loaded   == LoadComments(v, d)
        inlines  == buildInlineRequests(d, r.Comments, loaded.last.value, map)
    IN  IF Stopped(loaded) THEN loaded
        ELSE PostComments(PostInlines(loaded, inlines), buildCommentRequests(inlines, d))

\* updateReviewDiffs: nothing for a closed revision; a panic when the merge
\* base cannot be computed; the comments and reports mirrored when the
\* revision has the head commit; otherwise a new diff, of the commits from
\* the merge base to the head, attached to it.
updateReviewDiffs(w, d, headCommit, r, pick) ==
    IF Stopped(w) \/ isClosed(d) THEN w
    ELSE LET merged  == Read(w, Call("MergeBase", 0, <<r.TargetRef, headCommit>>))
             made    == createDifferentialDiff(merged, d.ID, merged.last.value, headCommit)
             updated == runArcCommandOrDie(made,
                            CallWith("differential.updaterevision", d.ID, made.last.value,
                                     UpdateRevisionRequest(d.ID, made.last.value)))
         IN  IF Stopped(merged) THEN merged
             ELSE IF merged.last.error THEN Panic(merged, "MergeBase")
             ELSE IF HasHash(d, headCommit) THEN mirrorCommentsIntoReview(merged, d, r, pick)
             ELSE IF Stopped(made) THEN made
             ELSE IF made.last.error THEN Panic(made, "differential.creatediff")
             ELSE IF made.last.value = 0 THEN made
             ELSE IF Stopped(updated) THEN updated
             ELSE IF updated.last.error THEN Panic(updated, "differential.updaterevision")
             ELSE updated

MutUpdateEach(w, existingReviews, headCommit, r, pick) == w

\* The loops over existingReviews: updateReviewDiffs for each.
RECURSIVE updateEach(_, _, _, _, _)
updateEach(w, existingReviews, headCommit, r, pick) ==
    IF existingReviews = <<>> \/ Stopped(w) THEN w
    ELSE updateEach(updateReviewDiffs(w, Head(existingReviews), headCommit, r, pick),
                    Tail(existingReviews), headCommit, r, pick)

RECURSIVE closeEach(_, _)
closeEach(w, existingReviews) ==
    IF existingReviews = <<>> \/ Stopped(w) THEN w
    ELSE closeEach(IF ~isClosed(Head(existingReviews)) THEN close(w, Head(existingReviews)) ELSE w,
                   Tail(existingReviews))

MutCloseSubmittedUnlessError(w, revision, existingReviews) ==
    IF Stopped(closeEach(w, existingReviews)) \/ closeEach(w, existingReviews).logged # {}
    THEN closeEach(w, existingReviews)
    ELSE [closeEach(w, existingReviews) EXCEPT !.closedRevisionsMap = @ \cup {revision}]

\* The change has been merged: the open revisions are closed and the
\* revision is remembered as closed.
closeSubmitted(w, revision, existingReviews) ==
    IF Stopped(closeEach(w, existingReviews)) THEN closeEach(w, existingReviews)
    ELSE [closeEach(w, existingReviews) EXCEPT !.closedRevisionsMap = @ \cup {revision}]

\* EnsureRequestExists for the review r as review.ListAll returned it;
\* pick is the choice of the runtime in the ranges over maps.
EnsureRequestExists(w, revision, r, pick) ==
    IF revision \in w.closedRevisionsMap THEN w
    ELSE LET queried         == listDifferentialReviewsOrDie(w, revision)
             existingReviews == queried.last.value
             base            == Read(queried, Call("GetBaseCommit", 0, revision))
             head            == Read(base, Call("GetHeadCommit", 0, revision))
             made            == createDifferentialDiff(head, 0, base.last.value, revision)
             created         == createDifferentialRevision(made, revision, made.last.value)
             again           == listDifferentialReviewsOrDie(created, revision)
         IN  IF Stopped(queried) THEN queried
             ELSE IF r.Submitted THEN closeSubmitted(queried, revision, existingReviews)
             ELSE IF Stopped(base) THEN base
             ELSE IF base.last.error THEN base
             ELSE IF Stopped(head) THEN head
             ELSE IF head.last.error THEN head
             ELSE IF Len(existingReviews) > 0 THEN updateEach(head, existingReviews, head.last.value, r, pick)
             ELSE IF Stopped(made) THEN made
             ELSE IF made.last.error THEN Panic(made, "differential.creatediff")
             ELSE IF made.last.value = 0 THEN made
             ELSE IF Stopped(created) THEN created
             ELSE IF created.last.error THEN Panic(created, "differential.createrevision")
             ELSE IF Stopped(again) THEN again
             ELSE updateEach(again, again.last.value, head.last.value, r, pick)

\* GetFirstCommit: the earliest of the commits of the revision; of equally
\* old commits the last one wins.
RECURSIVE EarliestCommit(_, _)
EarliestCommit(hashes, best) ==
    IF hashes = <<>> THEN best
    ELSE EarliestCommit(Tail(hashes),
                        IF best = NoCommit \/ GetCommitTime(Head(hashes)) <= GetCommitTime(best)
                        THEN Head(hashes) ELSE best)

GetFirstCommit(phabricatorReview) == EarliestCommit(phabricatorReview.Hashes, NoCommit)

MutNewRemoteComments(comments, revisionComments) ==
    SelectSeq([i \in 1..Len(comments) |-> i],
              LAMBDA i : ~(revisionComments # <<>> /\ hasOverlap(comments[i], <<Head(revisionComments)>>)))

\* The ReviewLoop body for one open revision: the indices of its comments
\* that overlap no comment known for the review.
NewRemoteComments(comments, revisionComments) ==
    SelectSeq([i \in 1..Len(comments) |-> i], LAMBDA i : ~hasOverlap(comments[i], revisionComments))

(***************************************************************************)
(* The process.  Every call of arc is a step of its own: the process waits *)
(* for the command while people go on changing the repository and          *)
(* Differential, and nothing is locked.                                    *)
(***************************************************************************)
NoComments == [r \in Revisions |-> <<>>]

\* The choices of the runtime in a range over a map (a revision has at
\* most two diffs here).
Picks == 1..2

\* A review as review.ListAll returns it: the summary read from the notes.
Summary(revision, r) ==
    [Revision |-> revision, Submitted |-> r.Submitted, TargetRef |-> r.TargetRef, Comments |-> r.Comments]

Summaries(repo) == [i \in 1..Len(ListAll) |-> Summary(ListAll[i], repo[ListAll[i]])]

\* strings.HasPrefix(p, prefix) for a prefix that ends in a slash: the path
\* begins with the segments of the prefix and goes on after them.
HasPrefix(p, prefix) == Len(p) > Len(prefix) /\ SubSeq(p, 1, Len(prefix)) = prefix

MutRefresh(events, p) == Append(events, "diffusion.looksoon")

\* Arcanist.Refresh: diffusion.looksoon for a repository kept where
\* Phabricator keeps its repositories; events is the trail of the pass.
\* The response is not looked at.
Refresh(events, p) ==
    IF HasPrefix(p, defaultRepoDirPrefix) THEN Append(events, "diffusion.looksoon") ELSE events

\* The paths of the repository tried: /var/repo/R, /var/repo itself (the
\* default of the flag search_dir, when it is a repository) and /srv/git/R.
RepoPaths == {<<"var", "repo", "R">>, <<"var", "repo">>, <<"srv", "git", "R">>}

\* The notes of the reviews of a repository: what the refs under
\* refs/notes/devtools/ hold.
NotesOf(repo) ==
    [r \in Revisions |-> [Report |-> repo[r].Report, Lint |-> repo[r].Lint, Comments |-> repo[r].Comments]]

\* The union of two sets of comment notes, as threads: a comment of theirs
\* that is not among mine is added after mine, with its replies.
RECURSIVE MergeThreads(_, _)
MergeThreads(mine, theirs) ==
    IF theirs = <<>> THEN mine
    ELSE LET at == {i \in 1..Len(mine) : mine[i].Comment = Head(theirs).Comment}
             i  == CHOOSE k \in at : \A j \in at : k <= j
         IN  MergeThreads(IF at = {} THEN Append(mine, Head(theirs))
                          ELSE [mine EXCEPT ![i].Children = MergeThreads(@, Head(theirs).Children)],
                          Tail(theirs))

\* repo.PullNotes("origin", "refs/notes/devtools/*"): the notes of origin
\* are fetched and merged into the notes of the repository.
PullNotes(repo, theirs) ==
    [r \in Revisions |-> [repo[r] EXCEPT !.Report = @ \cup theirs[r].Report,
                                         !.Lint = @ \cup theirs[r].Lint,
                                         !.Comments = MergeThreads(@, theirs[r].Comments)]]

\* repo.PushNotes("origin", "refs/notes/devtools/*"): the notes of origin
\* after the push.  The push is accepted when it is answered without error
\* and the notes of the repository hold all the notes of origin.
PushNotes(repo, theirs, push) ==
    IF push = "ok" /\ PullNotes(repo, theirs) = repo THEN NotesOf(repo) ELSE theirs

MutChanged(processed, hash) == TRUE

\* processedStates[repo.GetPath()] != stateHash
Changed(processed, hash) == processed # hash

NoProbe == [kind |-> "none"]

NoRun ==
    [revision |-> "none", summary |-> Summary("r1", InitialReview("r1")), review |-> InitialReview("r1"),
     cached |-> FALSE, queried |-> FALSE, existing |-> <<>>, remote |-> <<>>, answers |-> <<>>,
     again |-> <<>>, read |-> FALSE, commits |-> [Failure |-> "none", Head |-> "r1"],
     repeat |-> FALSE, done |-> FALSE, panic |-> FALSE, logged |-> {}, fatal |-> {}, budget |-> MaxEvents]

MachineInit ==
    /\ repoPath \in RepoPaths
    /\ syncToRemote \in BOOLEAN
    /\ trail = <<>>
    /\ local = [r \in Revisions |-> InitialReview(r)]
    /\ origin = NotesOf([r \in Revisions |-> InitialReview(r)])
    /\ notes = <<>>
    /\ remote = <<>>
    /\ diffs = <<>>
    /\ closedRevisionsMap = {}
    /\ processedStates = NoHash
    /\ existingComments = NoComments
    /\ openReviews = <<>>
    /\ pc = "idle"
    /\ todo = <<>>
    /\ stateHash = NoHash
    /\ history = <<>>
    /\ pending = <<>>
    /\ calls = <<>>
    /\ failedPosts = {}
    /\ before = NoRun
    /\ closeCalls = <<>>
    /\ appended = <<>>
    /\ passes = 0

machineVars == <<repoPath, syncToRemote, local, origin, remote, diffs, closedRevisionsMap, processedStates, existingComments, openReviews, pc, todo, notes, stateHash, history, pending, calls, failedPosts, before, closeCalls, appended, trail, passes, budget, faults>>

\* The repository is kept where Phabricator keeps its repositories, and the
\* flag sync_to_remote has its default.
DefaultInit ==
    /\ MachineInit /\ repoPath = defaultRepoDirPrefix \o <<"R">> /\ syncToRemote = FALSE
    /\ budget = MaxEvents /\ faults = MaxFaults

Init == DefaultInit /\ probe = NoProbe

processVars == <<repoPath, syncToRemote, closedRevisionsMap, processedStates, existingComments, openReviews, pc, todo, notes, stateHash, history, pending, calls, failedPosts, before, closeCalls, trail, passes, faults>>

\* A person changes a review, at any moment: submits it, pushes a commit,
\* loses a ref, attaches a CI report or a static analysis report, or
\* comments.
Change(revision, r) ==
    /\ budget > 0
    /\ budget' = budget - 1
    /\ local' = [local EXCEPT ![revision] = r]
    /\ UNCHANGED <<origin, remote, diffs, processVars, appended, probe>>

Submit(revision) ==
    /\ ~local[revision].Submitted
    /\ Change(revision, [local[revision] EXCEPT !.Submitted = TRUE])

Push(revision) ==
    /\ local[revision].Head = revision
    /\ Change(revision, [local[revision] EXCEPT !.Head = IF revision = "r1" THEN "r1b" ELSE "r2b"])

Fail(revision, failure) ==
    /\ local[revision].Failure = "none"
    /\ Change(revision, [local[revision] EXCEPT !.Failure = failure])

Report(revision) ==
    /\ local[revision].Head \notin local[revision].Report
    /\ Change(revision, [local[revision] EXCEPT !.Report = @ \cup {local[revision].Head}])

Analyse(revision) ==
    /\ local[revision].Head \notin local[revision].Lint
    /\ Change(revision, [local[revision] EXCEPT !.Lint = @ \cup {local[revision].Head}])

CommentOnFile(revision) ==
    /\ \A i \in 1..Len(local[revision].Comments) : local[revision].Comments[i].Comment # FileComment(revision)
    /\ Change(revision, [local[revision] EXCEPT !.Comments = Append(@, Thread(FileComment(revision), <<>>))])

Reply(revision) ==
    \E i \in 1..Len(local[revision].Comments) :
        /\ local[revision].Comments[i] = Thread(FileComment(revision), <<>>)
        /\ Change(revision, [local[revision] EXCEPT !.Comments[i].Children = <<Thread(ReplyComment(revision), <<>>)>>])

CommentOnReview(revision) ==
    /\ \A i \in 1..Len(local[revision].Comments) : local[revision].Comments[i].Comment # ReviewComment(revision)
    /\ Change(revision, [local[revision] EXCEPT !.Comments = Append(@, Thread(ReviewComment(revision), <<>>))])

\* A person abandons a revision in Differential, at any moment.
Abandon(id) ==
    /\ budget > 0
    /\ remote[id].Status = differentialNeedsReviewStatus
    /\ budget' = budget - 1
    /\ remote' = [remote EXCEPT ![id].Status = differentialAbandonedStatus]
    /\ UNCHANGED <<local, origin, diffs, processVars, appended, probe>>

\* A person comments on a revision in Differential, at any moment.
CommentInDifferential(id) ==
    /\ budget > 0
    /\ budget' = budget - 1
    /\ remote' = [remote EXCEPT ![id].Comments = Append(@, HumanComment(RemoteTime(remote)))]
    /\ UNCHANGED <<local, origin, diffs, processVars, appended, probe>>

\* A person comments on a review in another clone and pushes the note to
\* origin, at any moment.
CommentAtOrigin(revision) ==
    /\ budget > 0
    /\ \A i \in 1..Len(origin[revision].Comments) : origin[revision].Comments[i].Comment # OriginComment(revision)
    /\ budget' = budget - 1
    /\ origin' = [origin EXCEPT ![revision].Comments = Append(@, Thread(OriginComment(revision), <<>>))]
    /\ UNCHANGED <<local, remote, diffs, processVars, appended, probe>>

\* What an answer costs of the answers left that are not the plain one.
Fault(a) == IF a = "ok" THEN 0 ELSE 1

\* One turn of the loop of main begins.  Repo: arc.Refresh; look is the
\* answer to diffusion.looksoon.  trail is the trail of the pass: its calls
\* of diffusion.looksoon and the steps of mirrorRepoToReview.
Repo(look) ==
    /\ pc = "idle" /\ passes < MaxPasses
    /\ passes' = passes + 1
    /\ look \in AnswersTo("diffusion.looksoon")
    /\ look # "ok" => HasPrefix(repoPath, defaultRepoDirPrefix) /\ faults > 0
    /\ faults' = faults - Fault(look)
    /\ trail' = Refresh(<<>>, repoPath)
    /\ pc' = "start"
    /\ UNCHANGED <<repoPath, syncToRemote, local, origin, remote, diffs, closedRevisionsMap, processedStates, existingComments, openReviews, todo, notes, stateHash, history, pending, calls, failedPosts, before, closeCalls, appended, budget, probe>>

\* The process dies and its supervisor starts it again: the caches are empty.
Restarted ==
    /\ closedRevisionsMap' = {}
    /\ processedStates' = NoHash
    /\ existingComments' = NoComments
    /\ openReviews' = <<>>
    /\ pc' = "idle"
    /\ todo' = <<>>
    /\ notes' = <<>>
    /\ stateHash' = NoHash
    /\ history' = <<>>
    /\ pending' = <<>>
    /\ closeCalls' = <<>>

\* mirrorRepoToReview begins.  With the flag sync_to_remote the notes of
\* origin are pulled; pull is the outcome of the pull, whose failure is not
\* looked at.
PassStart(pull) ==
    /\ pc = "start"
    /\ pull \in {"ok", "error"}
    /\ pull # "ok" => syncToRemote /\ faults > 0
    /\ faults' = faults - Fault(pull)
    /\ local' = IF syncToRemote /\ pull = "ok" THEN PullNotes(local, origin) ELSE local
    /\ pc' = "hash"
    /\ UNCHANGED <<repoPath, syncToRemote, origin, remote, diffs, closedRevisionsMap, processedStates, existingComments, openReviews, todo, notes, stateHash, history, pending, calls, failedPosts, before, closeCalls, appended, trail, passes, budget, probe>>

\* repo.GetRepoStateHash and the test of the hash against the recorded one;
\* hash is the outcome of GetRepoStateHash, whose failure ends the process.
StateHash(hash) ==
    /\ pc = "hash"
    /\ hash \in {"ok", "error"}
    /\ hash # "ok" => faults > 0
    /\ faults' = faults - Fault(hash)
    /\ IF hash = "error"
       THEN /\ Restarted
            /\ UNCHANGED trail
       ELSE /\ stateHash' = <<GetRepoStateHash(local)>>
            /\ IF Changed(processedStates, <<GetRepoStateHash(local)>>)
               THEN /\ pc' = "list" /\ todo' = <<>>
                    /\ trail' = Append(trail, "changed")
               ELSE /\ pc' = "loop" /\ todo' = openReviews
                    /\ trail' = Append(trail, "unchanged")
            /\ UNCHANGED <<closedRevisionsMap, processedStates, existingComments, openReviews, notes, history, pending, closeCalls>>
    /\ UNCHANGED <<repoPath, syncToRemote, local, origin, remote, diffs, calls, failedPosts, before, appended, passes, budget, probe>>

\* review.ListAll(repo): the reviews as the notes hold them now.
ListReviews ==
    /\ pc = "list"
    /\ pc' = "reviews"
    /\ todo' = Summaries(local)
    /\ trail' = Append(trail, "ListAll")
    /\ UNCHANGED <<repoPath, syncToRemote, local, origin, remote, diffs, closedRevisionsMap, processedStates, existingComments, openReviews, notes, stateHash, history, pending, calls, failedPosts, before, closeCalls, appended, passes, budget, faults, probe>>

\* What is known of the latest EnsureRequestExists once the run w of it
\* has come to its next command or to its end: the revisions of the first
\* query and Differential as it was then, the base and head commits the
\* run read (the second and third answers of a run for a review that is
\* not submitted), the answers, and how it ended.
Known(known, w, answered, revisions) ==
    LET all     == answered \o w.rec
        hasBase == ~known.summary.Submitted /\ Len(all) >= 2
        hasHead == hasBase /\ ~all[2].error /\ Len(all) >= 3
    IN  [known EXCEPT !.queried = TRUE,
                      !.existing = answered[1].value,
                      !.remote = IF known.queried THEN known.remote ELSE revisions,
                      !.read = hasHead \/ (hasBase /\ all[2].error),
                      !.commits = [Failure |-> IF hasBase /\ all[2].error THEN "base"
                                               ELSE IF hasHead /\ all[3].error THEN "head"
                                               ELSE "none",
                                   Head |-> IF hasHead THEN all[3].value ELSE @.Head],
                      !.answers = w.answers,
                      !.done = (w.pending = <<>>),
                      !.panic = w.panic, !.logged = w.logged, !.fatal = w.fatal]

\* The reviews whose latest EnsureRequestExists had the post of an inline
\* comment answered with an error.
FailedPosts(failed, revision, w) ==
    IF w.pending # <<>> THEN failed
    ELSE IF \E i \in 1..Len(w.calls) :
               w.calls[i].method = "differential.createinline" /\ w.calls[i].answer = "error"
    THEN failed \cup {revision}
    ELSE failed \ {revision}

\* One turn of the loop over review.ListAll begins: the comments of the
\* review are cached.
MirrorReview ==
    /\ pc = "reviews" /\ todo # <<>>
    /\ existingComments' = [existingComments EXCEPT ![Head(todo).Revision] = Head(todo).Comments]
    /\ pc' = "details"
    /\ UNCHANGED <<repoPath, syncToRemote, local, origin, remote, diffs, closedRevisionsMap, processedStates, openReviews, todo, notes, stateHash, history, pending, calls, failedPosts, before, closeCalls, appended, trail, passes, budget, faults, probe>>

\* r.Details() reads the review as it is now; unless that fails,
\* EnsureRequestExists begins and comes to its first command, the query, or
\* returns at once for a revision recorded as closed.
Details ==
    /\ pc = "details"
    /\ \E w \in {EnsureRequestExists(NewRun(<<>>, closedRevisionsMap), Head(todo).Revision, Head(todo), 1)} :
       LET summary  == Head(todo)
           revision == summary.Revision
       IN  IF local[revision].Failure = "details"
           THEN /\ trail' = Append(trail, "Details")
                /\ todo' = Tail(todo)
                /\ pc' = "reviews"
                /\ UNCHANGED <<pending, calls, failedPosts, before>>
           ELSE /\ trail' = Append(trail, "EnsureRequestExists")
                /\ calls' = <<>>
                /\ before' = [NoRun EXCEPT !.revision = revision, !.summary = summary,
                                           !.review = local[revision],
                                           !.cached = (revision \in closedRevisionsMap),
                                           !.remote = remote, !.budget = budget,
                                           !.repeat = /\ before.revision = revision
                                                      /\ before.summary = summary
                                                      /\ before.review = local[revision]
                                                      /\ before.done /\ ~before.panic
                                                      /\ \A i \in 1..Len(before.answers) :
                                                            before.answers[i].answer \in {"ok", "nouser"},
                                           !.done = (w.pending = <<>>)]
                /\ failedPosts' = FailedPosts(failedPosts, revision, w)
                /\ IF w.pending = <<>>
                   THEN /\ todo' = Tail(todo)
                        /\ pc' = "reviews"
                        /\ UNCHANGED pending
                   ELSE /\ pc' = "ensure"
                        /\ pending' = w.pending
                        /\ UNCHANGED todo
    /\ UNCHANGED <<repoPath, syncToRemote, local, origin, remote, diffs, closedRevisionsMap, processedStates, existingComments, openReviews, notes, stateHash, history, closeCalls, appended, passes, budget, faults, probe>>

\* EnsureRequestExists goes on, in the run w that was answered with
\* answered, to its next command or to its end; closes are the close calls
\* of the process so far.
Resume(w, answered, closes) ==
    /\ calls' = w.calls
    /\ failedPosts' = FailedPosts(failedPosts, Head(todo).Revision, w)
    /\ trail' = IF w.pending = <<>> THEN Append(trail, "returned") ELSE trail
    /\ IF w.panic
       THEN Restarted
       ELSE /\ closeCalls' = closes
            /\ UNCHANGED <<processedStates, existingComments, openReviews, notes, stateHash>>
            /\ IF w.pending = <<>>
               THEN /\ closedRevisionsMap' = w.closedRevisionsMap
                    /\ pc' = "reviews"
                    /\ todo' = Tail(todo)
                    /\ history' = <<>>
                    /\ pending' = <<>>
               ELSE /\ history' = answered \o w.rec
                    /\ pending' = w.pending
                    /\ UNCHANGED <<closedRevisionsMap, pc, todo>>

\* cmd.Wait in runArcCommandOrDie: Differential serves the pending call
\* with the answer a, and EnsureRequestExists goes on, with the choice
\* pick of the runtime, to its next command or to its end.
Wait(a, pick) ==
    /\ pc = "ensure" /\ pending # <<>> /\ pending[1].method \notin Reads
    /\ a \in AnswersTo(pending[1].method)
    /\ a # "ok" => faults > 0
    /\ faults' = faults - Fault(a)
    /\ \E served \in {Serve(remote, diffs, pending[1], a)} :
       \E w \in {EnsureRequestExists(NewRun(Append(history, served.response), closedRevisionsMap),
                                      Head(todo).Revision, Head(todo), pick)} :
          /\ remote' = served.remote
          /\ diffs' = served.diffs
          /\ before' = [Known(before, w, Append(history, served.response), remote) EXCEPT
                            !.again = IF pending[1].method = "differential.query" /\ before.queried
                                      THEN served.response.value ELSE @]
          /\ Resume(w, Append(history, served.response),
                    IF pending[1].method = "differential.close" THEN Append(closeCalls, pending[1].rev)
                    ELSE closeCalls)
    /\ UNCHANGED <<repoPath, syncToRemote, local, origin, appended, passes, budget, probe>>

\* The pending command of git reads the repository as it is now, and
\* EnsureRequestExists goes on, with the choice pick of the runtime, to its
\* next command or to its end.
RunGitCommand(pick) ==
    /\ pc = "ensure" /\ pending # <<>> /\ pending[1].method \in Reads
    /\ \E w \in {EnsureRequestExists(NewRun(Append(history, ReadRepository(local, Head(todo).Revision, pending[1])),
                                             closedRevisionsMap),
                                      Head(todo).Revision, Head(todo), pick)} :
          /\ before' = Known(before, w, Append(history, ReadRepository(local, Head(todo).Revision, pending[1])), remote)
          /\ Resume(w, Append(history, ReadRepository(local, Head(todo).Revision, pending[1])), closeCalls)
    /\ UNCHANGED <<repoPath, syncToRemote, local, origin, remote, diffs, appended, passes, budget, faults, probe>>

\* After the loop: the open revisions are listed and cached and the state
\* hash is recorded.  a is the answer to differential.query.
FinishReviews(a) ==
    /\ pc = "reviews" /\ todo = <<>>
    /\ a \in AnswersTo("differential.query")
    /\ a # "ok" => faults > 0
    /\ faults' = faults - Fault(a)
    /\ openReviews' = ListOpenReviews(remote, a)
    /\ processedStates' = stateHash
    /\ trail' = trail \o <<"ListOpenReviews", "processedStates">>
    /\ pc' = "refresh"
    /\ UNCHANGED <<repoPath, syncToRemote, local, origin, remote, diffs, closedRevisionsMap, existingComments, todo, notes, stateHash, history, pending, calls, failedPosts, before, closeCalls, appended, passes, budget, probe>>

\* tool.Refresh(repo) at the end of the mirroring: Differential is told to
\* look at the repository; then ReviewLoop begins.
RefreshMirrored(look) ==
    /\ pc = "refresh"
    /\ look \in AnswersTo("diffusion.looksoon")
    /\ look # "ok" => HasPrefix(repoPath, defaultRepoDirPrefix) /\ faults > 0
    /\ faults' = faults - Fault(look)
    /\ trail' = Refresh(trail, repoPath)
    /\ pc' = "loop"
    /\ todo' = openReviews
    /\ UNCHANGED <<repoPath, syncToRemote, local, origin, remote, diffs, closedRevisionsMap, processedStates, existingComments, openReviews, notes, stateHash, history, pending, calls, failedPosts, before, closeCalls, appended, passes, budget, probe>>

\* One turn of ReviewLoop, to the end of LoadComments: the comments of an
\* open revision that overlap no cached comment of its review are the notes
\* to write.  summary is the outcome of review.GetSummary, whose failure
\* ends the process, and a is the answer to the load of the comments.
MirrorRemote(summary, a) ==
    /\ pc = "loop" /\ todo # <<>>
    /\ summary \in {"ok", "error"} /\ a \in AnswersTo("LoadComments")
    /\ summary # "ok" => a = "ok"
    /\ Fault(summary) + Fault(a) <= faults
    /\ faults' = faults - Fault(summary) - Fault(a)
    /\ trail' = Append(trail, "ReviewLoop")
    /\ \E loaded \in {Serve(remote, diffs, Call("LoadComments", Head(todo).ID, 0), a)} :
       LET phabricatorReview == Head(todo)
           reviewCommit == GetFirstCommit(phabricatorReview)
           comments == loaded.response.value
           fresh == NewRemoteComments(comments, existingComments[reviewCommit])
           skipped == /\ a = "ok"
                      /\ todo' = Tail(todo)
                      /\ UNCHANGED <<closedRevisionsMap, processedStates, existingComments, openReviews, pc, notes, stateHash, history, pending, closeCalls>>
       IN  IF reviewCommit = NoCommit THEN summary = "ok" /\ skipped
           ELSE IF summary = "error" THEN Restarted
           ELSE IF reviewCommit \notin Revisions THEN skipped
           ELSE IF a = "error" THEN Restarted
           ELSE /\ notes' = [i \in 1..Len(fresh) |->
                                [ID |-> phabricatorReview.ID, index |-> fresh[i], revision |-> reviewCommit,
                                 comment |-> comments[fresh[i]]]]
                /\ IF fresh = <<>>
                   THEN todo' = Tail(todo) /\ UNCHANGED pc
                   ELSE pc' = "notes" /\ UNCHANGED todo
                /\ UNCHANGED <<closedRevisionsMap, processedStates, existingComments, openReviews, stateHash, history, pending, closeCalls>>
    /\ UNCHANGED <<repoPath, syncToRemote, local, origin, remote, diffs, calls, failedPosts, before, appended, passes, budget, probe>>

\* repo.AppendNote for the next new comment of the revision: git writes the
\* note of the comment, which is read back as a thread of its own; after
\* the last one ReviewLoop goes on.
AppendNote ==
    /\ pc = "notes" /\ notes # <<>>
    /\ local' = [local EXCEPT ![Head(notes).revision].Comments = Append(@, Thread(Parse(Write(Head(notes).comment)), <<>>))]
    /\ appended' = Append(appended, <<Head(notes).ID, Head(notes).index>>)
    /\ notes' = Tail(notes)
    /\ IF Tail(notes) = <<>>
       THEN pc' = "loop" /\ todo' = Tail(todo)
       ELSE UNCHANGED <<pc, todo>>
    /\ UNCHANGED <<repoPath, syncToRemote, origin, remote, diffs, closedRevisionsMap, processedStates, existingComments, openReviews, stateHash, history, pending, calls, failedPosts, before, closeCalls, trail, passes, budget, faults, probe>>

\* The end of the pass.  With the flag sync_to_remote the notes are pushed
\* to origin; push is the answer to the push, whose failure is logged.
PassEnd(push) ==
    /\ pc = "loop" /\ todo = <<>>
    /\ push \in {"ok", "error"}
    /\ push # "ok" => syncToRemote /\ faults > 0
    /\ faults' = faults - Fault(push)
    /\ origin' = IF syncToRemote THEN PushNotes(local, origin, push) ELSE origin
    /\ trail' = IF syncToRemote /\ ~(push = "ok" /\ PullNotes(local, origin) = local)
                THEN Append(trail, "PushNotes") ELSE trail
    /\ pc' = "idle"
    /\ UNCHANGED <<repoPath, syncToRemote, local, remote, diffs, closedRevisionsMap, processedStates, existingComments, openReviews, todo, notes, stateHash, history, pending, calls, failedPosts, before, closeCalls, appended, passes, budget, probe>>

\* The process is killed at any point, or arc does not finish in time, and
\* the process is started again.
Restart ==
    /\ budget > 0
    /\ budget' = budget - 1
    /\ Restarted
    /\ UNCHANGED <<repoPath, syncToRemote, local, origin, remote, diffs, calls, failedPosts, before, appended, trail, passes, faults, probe>>

\* The process.
Mirror ==
    \/ \E look \in {"ok", "error"} : Repo(look)
    \/ \E pull \in {"ok", "error"} : PassStart(pull)
    \/ \E hash \in {"ok", "error"} : StateHash(hash)
    \/ ListReviews
    \/ MirrorReview
    \/ Details
    \/ \E a \in {"ok", "error", "nodiff", "nouser"}, pick \in Picks : Wait(a, pick)
    \/ \E pick \in Picks : RunGitCommand(pick)
    \/ \E a \in {"ok", "error"} : FinishReviews(a)
    \/ \E look \in {"ok", "error"} : RefreshMirrored(look)
    \/ \E summary \in {"ok", "error"}, a \in {"ok", "error"} : MirrorRemote(summary, a)
    \/ AppendNote
    \/ \E push \in {"ok", "error"} : PassEnd(push)

Next ==
    \/ \E revision \in Active : Submit(revision)
    \/ \E revision \in Revisions : Push(revision)
    \/ \E revision \in Active, failure \in Failures : Fail(revision, failure)
    \/ \E revision \in Active : Report(revision)
    \/ \E revision \in Active : Analyse(revision)
    \/ \E revision \in Active : CommentOnFile(revision)
    \/ \E revision \in Active : Reply(revision)
    \/ \E revision \in Active : CommentOnReview(revision)
    \/ \E id \in 1..Len(remote) : Abandon(id)
    \/ \E id \in 1..Len(remote) : CommentInDifferential(id)
    \/ Mirror
    \/ Restart

Spec == Init /\ [][Next]_vars

\* The process on a repository kept anywhere, with a review that is
\* pushed to, submitted, commented on in Differential or loses a ref.
InitAnywhere ==
    MachineInit /\ syncToRemote = FALSE /\ budget = MaxEvents /\ faults = MaxFaults /\ probe = NoProbe

NextAnywhere ==
    \/ \E revision \in Active : Submit(revision)
    \/ \E revision \in Active : Push(revision)
    \/ \E revision \in Active, failure \in Failures : Fail(revision, failure)
    \/ \E id \in 1..Len(remote) : CommentInDifferential(id)
    \/ Mirror
    \/ Restart

SpecAnywhere == InitAnywhere /\ [][NextAnywhere]_vars

\* The process run with the flag sync_to_remote or without it, while people
\* comment on the review, in the repository and in another clone, and in
\* Differential.
InitSync ==
    /\ MachineInit /\ repoPath = defaultRepoDirPrefix \o <<"R">>
    /\ budget = MaxSyncEvents /\ faults = MaxFaults /\ probe = NoProbe

NextSync ==
    \/ \E revision \in Active : CommentOnFile(revision)
    \/ \E revision \in Active : CommentAtOrigin(revision)
    \/ \E id \in 1..Len(remote) : CommentInDifferential(id)
    \/ Mirror
    \/ Restart

SpecSync == InitSync /\ [][NextSync]_vars

\* The process while a review is pushed to and the process is killed, with
\* one more answer that is not the plain one: a query answered with an
\* error and a diff Differential does not produce.
InitFaulty ==
    /\ MachineInit /\ repoPath = defaultRepoDirPrefix \o <<"R">> /\ syncToRemote = FALSE
    /\ budget = MaxEvents /\ faults = MaxFaults + 1 /\ probe = NoProbe

NextFaulty ==
    \/ \E revision \in Active : Push(revision)
    \/ \E id \in 1..Len(remote) : CommentInDifferential(id)
    \/ Mirror
    \/ Restart

SpecFaulty == InitFaulty /\ [][NextFaulty]_vars

(***************************************************************************)
(* The title and summary of a revision, for descriptions whose first line  *)
(* is shorter than, as long as and longer than the title limit.            *)
(***************************************************************************)
InitFields ==
    /\ DefaultInit
    /\ probe \in {[kind |-> "description", description |-> [i \in 1..n |-> "a"] \o tail, fields |-> RevisionFields(<<>>)] :
                    n \in 0..(differentialTitleLengthLimit + TitleOverrun),
                    tail \in {<<>>, <<NewLine>>, <<NewLine, "b">>}}

ApplyRevisionFields ==
    /\ probe.kind = "description"
    /\ probe' = [probe EXCEPT !.kind = "fields", !.fields = RevisionFields(probe.description)]
    /\ UNCHANGED machineVars

SpecFields == InitFields /\ [][ApplyRevisionFields]_vars

(***************************************************************************)
(* Overlaps on pairs of comments.                                          *)
(***************************************************************************)
PlainDescriptions == {<<>>, <<"typo">>}

CommentUniverse ==
    LET plain == {NewComment(ts, author, loc, d, resolved) :
                    ts \in {1, 2}, author \in {"alice", RobotAuthor},
                    loc \in {NoLocation, [Commit |-> "r1", Path |-> "", Line |-> 0],
                             [Commit |-> "r1", Path |-> "hello.txt", Line |-> 42]},
                    d \in PlainDescriptions, resolved \in {"nil"}}
        descriptions == PlainDescriptions \cup {QuoteDescription(c) : c \in plain}
    IN  {NewComment(ts, author, loc, d, resolved) :
            ts \in {1, 2}, author \in {"alice", RobotAuthor},
            loc \in {NoLocation, [Commit |-> "r1", Path |-> "", Line |-> 0],
                     [Commit |-> "r1", Path |-> "hello.txt", Line |-> 42]},
            d \in descriptions, resolved \in {"nil", "true", "false"}}

InitOverlaps ==
    /\ DefaultInit
    /\ probe \in {[kind |-> "pair", a |-> a, b |-> b, ab |-> FALSE, ba |-> FALSE] : a, b \in CommentUniverse}

ApplyOverlaps ==
    /\ probe.kind = "pair"
    /\ probe' = [probe EXCEPT !.kind = "overlaps", !.ab = Overlaps(probe.a, probe.b), !.ba = Overlaps(probe.b, probe.a)]
    /\ UNCHANGED machineVars

SpecOverlaps == InitOverlaps /\ [][ApplyOverlaps]_vars

(***************************************************************************)
(* The unit-test property of a diff made of a CI report.                   *)
(***************************************************************************)
MutTranslateReportStatus(status) ==
    IF status = "success" THEN "pass" ELSE "fail"

translateReportStatusToDifferentialUnitResult(status) ==
    IF status = "success" THEN "pass"
    ELSE IF status = "failure" THEN "fail"
    ELSE "skip"

\* generateUnitDiffProperty: no property for a report without URL.
generateUnitDiffProperty(report) ==
    IF report.URL = "" THEN <<>>
    ELSE <<[Name |-> report.Agent, Link |-> report.URL,
            Result |-> translateReportStatusToDifferentialUnitResult(report.Status)]>>

InitUnit ==
    /\ DefaultInit
    /\ probe \in {[kind |-> "report", report |-> r, result |-> "", property |-> <<>>] :
                    r \in [URL : {"", "http://ci/1"},
                           Status : {"success", "failure", "", "pending", "error", "SUCCESS", "Failure",
                                     "pass", "fail", "skip"},
                           Agent : {"jenkins", "travis", "buildbot"}]}

ApplyTranslate ==
    /\ probe.kind = "report"
    /\ probe' = [probe EXCEPT !.kind = "unit",
                              !.result = translateReportStatusToDifferentialUnitResult(probe.report.Status),
                              !.property = generateUnitDiffProperty(probe.report)]
    /\ UNCHANGED machineVars

SpecUnit == InitUnit /\ [][ApplyTranslate]_vars

(***************************************************************************)
(* FilterOverlapping on lists of threads: the comments of                  *)
(* TestFilterOverlapping, alone and in threads with replies.               *)
(***************************************************************************)
fileLocation == [Commit |-> "r1", Path |-> "hello.txt", Line |-> 42]

commitLocation == [Commit |-> "r1", Path |-> "", Line |-> 0]

originalComment == NewComment(1, "alice", fileLocation, <<"typo">>, "false")

quotedComment == NewComment(2, RobotAuthor, fileLocation, QuoteDescription(originalComment), "nil")

\* A copy of the original that Differential stamped with the time of the
\* original and that carries its resolved flag.
copiedComment == NewComment(1, RobotAuthor, fileLocation, QuoteDescription(originalComment), "false")

replyComment == NewComment(2, RobotAuthor, fileLocation, <<"'", "typo", "': Actually, I disagree">>, "nil")

originalReject == NewComment(1, "alice", commitLocation, <<"typo">>, "false")

quotedReject == NewComment(2, RobotAuthor, commitLocation, QuoteDescription(originalReject), "false")

misQuotedReject == NewComment(2, RobotAuthor, commitLocation, QuoteDescription(originalReject), "nil")

commentThreads ==
    <<Thread(originalComment, <<>>), Thread(quotedComment, <<>>), Thread(replyComment, <<>>),
      Thread(originalReject, <<>>), Thread(quotedReject, <<>>), Thread(misQuotedReject, <<>>)>>

existingOfTest == <<originalComment, originalReject>>

\* The replies a thread may have: none, one, two in either order, and a
\* reply to a reply.
Replies ==
    {<<>>,
     <<Thread(replyComment, <<>>)>>,
     <<Thread(replyComment, <<>>), Thread(quotedComment, <<>>)>>,
     <<Thread(quotedComment, <<>>), Thread(replyComment, <<>>)>>,
     <<Thread(replyComment, <<Thread(quotedComment, <<>>)>>)>>,
     <<Thread(replyComment, <<Thread(copiedComment, <<>>)>>)>>}

ThreadUniverse ==
    {Thread(c, children) : c \in {originalComment, quotedComment, copiedComment, replyComment, misQuotedReject},
                           children \in Replies}

\* Comments as threads without replies.
AsThreads(comments) == [i \in 1..Len(comments) |-> Thread(comments[i], <<>>)]

InitFilter ==
    /\ DefaultInit
    /\ probe \in {[kind |-> "threads", threads |-> t, existing |-> e, filtered |-> <<>>, again |-> <<>>, united |-> <<>>] :
                    t \in UNION {[1..n -> ThreadUniverse] : n \in 0..MaxThreads} \cup {commentThreads},
                    e \in {<<>>, <<originalComment>>, <<quotedComment>>, existingOfTest}}

ApplyFilterOverlapping ==
    /\ probe.kind = "threads"
    /\ LET filtered == FilterOverlapping(probe.threads, probe.existing)
       IN  probe' = [probe EXCEPT !.kind = "filtered",
                                  !.filtered = filtered,
                                  !.again = FilterOverlapping(AsThreads(filtered), probe.existing),
                                  !.united = FilterOverlapping(AsThreads(filtered), probe.existing \o filtered)]
    /\ UNCHANGED machineVars

SpecFilter == InitFilter /\ [][ApplyFilterOverlapping]_vars

(***************************************************************************)
(* buildCommentRequests on lists of threads whose roots are at a line of a *)
(* file, at a file without line, on the review as a whole or nowhere, at a *)
(* commit with or without a diff in the revision.                          *)
(***************************************************************************)
\* The last commits of the diffs of Differential in these runs.
DiffCommits == <<"r1", "r1b">>

RootLocations ==
    {NoLocation,
     [Commit |-> "r1", Path |-> "", Line |-> 0],
     [Commit |-> "r1", Path |-> "hello.txt", Line |-> 42],
     [Commit |-> "r1b", Path |-> "hello.txt", Line |-> 0],
     [Commit |-> "r3", Path |-> "hello.txt", Line |-> 7]}

\* A reply at a place of its own, where a root would be posted.
PlacedReply == NewComment(2, "bob", [Commit |-> "r1", Path |-> "hello.txt", Line |-> 42], <<"done">>, "nil")

RequestThreads ==
    {Thread(NewComment(1, "alice", loc, <<"typo">>, "nil"), children) :
        loc \in RootLocations,
        children \in {<<>>, <<Thread(PlacedReply, <<>>)>>,
                      <<Thread(PlacedReply, <<Thread(HumanComment(3), <<>>)>>)>>}}

\* The diffs of the revision are none, the first, or both; the comments
\* Differential holds already are none, or the copy of the reply.
InitRequests ==
    /\ DefaultInit
    /\ probe \in {[kind |-> "toPost", threads |-> t, diffIDs |-> ids, existing |-> e,
                    each |-> <<>>, inlines |-> <<>>, comments |-> <<>>] :
                    t \in UNION {[1..n -> RequestThreads] : n \in 0..MaxThreads},
                    ids \in {<<>>, <<1>>, <<1, 2>>},
                    e \in {<<>>, <<NewComment(101, RobotAuthor, PlacedReply.Location,
                                               QuoteDescription(PlacedReply), "nil")>>}}

ApplyBuildCommentRequests ==
    /\ probe.kind = "toPost"
    /\ LET d == [ID |-> 1, Diffs |-> probe.diffIDs]
           map == commitToDiffMap(probe.diffIDs, [i \in 1..Len(probe.diffIDs) |-> DiffCommits[probe.diffIDs[i]]], <<>>)
           inlines == buildInlineRequests(d, probe.threads, probe.existing, map)
       IN  probe' = [probe EXCEPT !.kind = "requests",
                                  !.each = [i \in 1..Len(probe.threads) |->
                                              buildInlineRequests(d, <<probe.threads[i]>>, probe.existing, map)],
                                  !.inlines = inlines,
                                  !.comments = buildCommentRequests(inlines, d)]
    /\ UNCHANGED machineVars

SpecRequests == InitRequests /\ [][ApplyBuildCommentRequests]_vars
(***************************************************************************)
(* Properties.  before describes the latest EnsureRequestExists: the       *)
(* review it was given, whether its revision was in closedRevisionsMap,    *)
(* the revisions its queries returned, the commits it read, the answers of *)
(* Differential, whether it has ended, and whether the run before it was   *)
(* of the same review in the same state and was answered without error;    *)
(* calls is the log of its conduit calls so far.                           *)
(***************************************************************************)
Ensured == before.revision # "none"

\* The run has ended: it returned or the process ended in it.
Done == Ensured /\ before.done

\* Since the run began no person has changed the repository or
\* Differential and the process was not killed.
Quiet == before.budget = budget

\* The step is one of the process, not of a person and not a kill.
ProcessStep == budget' = budget

CallsOf(methods, rev) == {i \in 1..Len(calls) : calls[i].method \in methods /\ calls[i].rev = rev}

CallsTo(methods) == {i \in 1..Len(calls) : calls[i].method \in methods}

\* Every call of the run so far was answered without error and with a diff
\* (a user may be unknown to Phabricator).
AllOk == \A i \in 1..Len(before.answers) : before.answers[i].answer \in {"ok", "nouser"}

\* A call of the method was answered with an error in the run.
ErrorTo(method) ==
    \E i \in 1..Len(before.answers) : before.answers[i] = [method |-> method, answer |-> "error"]

ClosedOrAbandoned(d) == d.Status \in {"3", "4"}

Holds(d, commit) == \E i \in 1..Len(d.Hashes) : d.Hashes[i] = commit

\* The revisions the queries of the run returned.
Queried == {before.existing[k] : k \in 1..Len(before.existing)} \cup {before.again[k] : k \in 1..Len(before.again)}

\* The run read the base and head commits of a review that is not
\* submitted, and it could compute them and the merge base.
Computable ==
    /\ ~before.summary.Submitted /\ ~before.cached
    /\ before.read /\ before.commits.Failure = "none"
    /\ "MergeBase" \notin before.fatal

\* C1: a second EnsureRequestExists for a review whose local state is as at
\* the first issues no remote mutation call (here even with the calls of
\* both answered without error and with no one acting meanwhile).
C1_SecondCallIssuesNoMutation ==
    (Ensured /\ before.repeat /\ Quiet /\ AllOk) => CallsTo(Mutations) = {}

\* Differential as it was when it served the first query of the run: the
\* revisions that hold the commit hash of the review.
Matching == {id \in 1..Len(before.remote) : before.queried /\ Holds(before.remote[id], before.revision)}

\* C2: the first EnsureRequestExists for a submitted review issues exactly
\* one close call for each open revision that holds the commit hash of the
\* review, and the process never issues a second close call for a
\* revision.
C2_ClosedExactlyOnce ==
    /\ \A i, j \in 1..Len(closeCalls) : closeCalls[i] = closeCalls[j] => i = j
    /\ (Done /\ before.summary.Submitted) =>
          \A id \in Matching :
              ~ClosedOrAbandoned(before.remote[id]) =>
                  Cardinality(CallsOf({"differential.close"}, id)) = IF before.cached THEN 0 ELSE 1

\* The mutation calls the run has issued, the pending one too.
Issued == [i \in 1..Len(calls) |-> [method |-> calls[i].method, rev |-> calls[i].rev, request |-> calls[i].request]]
          \o (IF pc = "ensure" /\ pending # <<>> /\ pending[1].method \in Mutations
              THEN <<[method |-> pending[1].method, rev |-> pending[1].rev, request |-> pending[1].request]>>
              ELSE <<>>)

\* The engine asks for no change of the status of a revision but its
\* closing: an update carries the id of the revision and of a diff and no
\* field.
NoReopenCall ==
    \A i \in 1..Len(Issued) :
        Issued[i].method = "differential.updaterevision" =>
            Issued[i].request = [id |-> Issued[i].rev, diffid |-> Issued[i].request.diffid, fields |-> <<>>]

\* C3 as stated: no creation of a diff and no update is issued for a
\* revision that is closed or abandoned when the call is issued, and the
\* engine never asks to reopen it.
C3_ClosedRevisionNeverDiffed ==
    /\ [][(/\ ProcessStep /\ pending' # <<>>
           /\ pending'[1].method \in {"differential.creatediff", "differential.updaterevision"}
           /\ pending'[1].rev # 0)
          => ~ClosedOrAbandoned(remote'[pending'[1].rev])]_vars
    /\ [](Ensured => NoReopenCall)

\* C3 amended: no diff is created for, and no update sent to, a revision
\* that a query of the call returned as closed or abandoned, and the
\* engine never asks to reopen a revision (its updates carry a diff and no
\* field).
C3_ClosedRevisionUntouched ==
    Ensured =>
        /\ \A d \in Queried :
              ClosedOrAbandoned(d) =>
                  \A i \in 1..Len(Issued) :
                      Issued[i].method \in {"differential.creatediff", "differential.updaterevision"}
                          => Issued[i].rev # d.ID
        /\ NoReopenCall

C3_Witness ==
    /\ Done /\ Computable
    /\ before.commits.Head # before.revision
    /\ \E k \in 1..Len(before.existing) :
          /\ before.existing[k].Status = "4"
          /\ ~Holds(before.existing[k], before.commits.Head)

C5_NoEcho ==
    /\ \A i \in 1..Len(appended) :
          remote[appended[i][1]].Comments[appended[i][2]].Author # RobotAuthor
    /\ \A id \in 1..Len(remote) : \A k \in 1..Len(remote[id].Comments) :
          \A i \in 1..Len(appended) :
              remote[id].Comments[k].Description
                  # QuoteDescription(remote[appended[i][1]].Comments[appended[i][2]])

\* The calls that create a diff or a revision or update a revision.
Creations == {"differential.creatediff", "differential.createrevision", "differential.updaterevision"}

\* C6: when an open revision of the review holds the head commit the run
\* read, the run creates no diff and no revision and sends no update: its
\* mutations set diff properties or post comments.
C6_HeadUnchanged ==
    (Ensured /\ Computable) =>
        \A id \in Matching :
            (~ClosedOrAbandoned(before.remote[id]) /\ Holds(before.remote[id], before.commits.Head)) =>
                /\ CallsTo(Creations) = {}
                /\ \A i \in CallsTo(Mutations) :
                      calls[i].method \in {"differential.setdiffproperty", "differential.createinline", "differential.createcomment"}

\* The run is for a review that is not submitted and has no revision in
\* Differential that holds its commit hash.
FirstMirroringOfAny ==
    /\ Ensured /\ ~before.summary.Submitted /\ ~before.cached
    /\ before.queried /\ Matching = {}

\* The review of the scenario: its description has a short first line and
\* a further line.
FirstMirroring ==
    FirstMirroringOfAny /\ FirstLine(DescriptionOf(before.revision)) # DescriptionOf(before.revision)

\* The diffs created before there is a revision to name.
FirstDiffs == CallsOf({"differential.creatediff"}, 0)

\* The calls of the methods that were answered without error and, for a
\* diff, with a diff.
Made(methods) == {i \in CallsTo(methods) : calls[i].answer = "ok"}

\* The run has ended and Differential made the first diff and answered the
\* creation of the revision without error.
Created ==
    /\ before.done
    /\ Made({"differential.creatediff"}) \cap FirstDiffs # {}
    /\ \A i \in CallsTo({"differential.createrevision"}) : calls[i].answer = "ok"

\* The revisions the run asked for have the first line as title and the
\* description as summary.
TitledByFirstLine ==
    \A i \in CallsTo({"differential.createrevision"}) :
        /\ calls[i].request.fields.Title = FirstLine(DescriptionOf(before.revision))
        /\ calls[i].request.fields.Summary = DescriptionOf(before.revision)
        /\ calls[i].answer = "ok" =>
              /\ remote[calls[i].rev].Title = FirstLine(DescriptionOf(before.revision))
              /\ remote[calls[i].rev].Summary = DescriptionOf(before.revision)

\* C7 as stated: the first mirroring of such a review creates exactly one
\* diff and exactly one revision, titled by the first line and summarised
\* by the description.
C7_OneDiffOneRevision ==
    FirstMirroring =>
        /\ Cardinality(CallsTo({"differential.creatediff"})) <= 1
        /\ Cardinality(CallsTo({"differential.createrevision"})) <= 1
        /\ TitledByFirstLine
        /\ Created => /\ Cardinality(CallsTo({"differential.creatediff"})) = 1
                      /\ Cardinality(CallsTo({"differential.createrevision"})) = 1

\* C7 amended: exactly one revision, titled by the first line and
\* summarised by the description, from one diff of the first commit of the
\* review; a second diff only when the head is a later commit, of the
\* head and for that revision.
C7_OneRevision ==
    FirstMirroring =>
        /\ Cardinality(FirstDiffs) <= 1
        /\ \A i \in FirstDiffs : calls[i].arg = before.revision
        /\ Cardinality(CallsTo({"differential.createrevision"})) <= 1
        /\ TitledByFirstLine
        /\ Created => /\ Cardinality(FirstDiffs) = 1
                      /\ Cardinality(Made({"differential.createrevision"})) = 1
        /\ Cardinality(CallsTo({"differential.creatediff"}) \ FirstDiffs) <= 1
        /\ \A i \in CallsTo({"differential.creatediff"}) \ FirstDiffs :
              /\ before.commits.Head # before.revision
              /\ calls[i].arg = before.commits.Head
              /\ \E j \in Made({"differential.createrevision"}) : j < i /\ calls[j].rev = calls[i].rev

C7_Witness ==
    /\ FirstMirroring /\ Created /\ ~before.panic
    /\ before.commits.Head # before.revision
    /\ Cardinality(CallsTo({"differential.creatediff"})) = 2
    /\ Cardinality(Made({"differential.createrevision"})) = 1
    /\ \E i \in Made({"differential.updaterevision"}) : remote[calls[i].rev].Hashes = <<before.revision, before.commits.Head>>

Truncated == probe.kind = "fields" /\ Len(FirstLine(probe.description)) > 256

EndsInEllipsis(title) ==
    Len(title) >= 3 /\ SubSeq(title, Len(title) - 2, Len(title)) = <<".", ".", ".">>

\* C8 as stated: a first line of more than 256 characters gives a title of
\* exactly 256 characters that ends in the ellipsis, and a non-empty
\* summary that is the description.
C8_Title256 ==
    Truncated =>
        /\ Len(probe.fields.Title) = 256
        /\ EndsInEllipsis(probe.fields.Title)
        /\ probe.fields.Summary = probe.description /\ probe.fields.Summary # <<>>

\* C8 amended: the title has exactly 255 characters, the first 252 of the
\* first line and the ellipsis, and the summary is the description.
C8_Title255 ==
    Truncated =>
        /\ Len(probe.fields.Title) = 255
        /\ SubSeq(probe.fields.Title, 1, 252) = SubSeq(probe.description, 1, 252)
        /\ EndsInEllipsis(probe.fields.Title)
        /\ probe.fields.Summary = probe.description /\ probe.fields.Summary # <<>>

C8_Witness == Truncated /\ Len(probe.fields.Title) = 255

\* C9 as stated: a first line of at most 256 characters gives no summary.
C9_NoSummaryUnlessTruncated ==
    (probe.kind = "fields" /\ Len(FirstLine(probe.description)) <= 256) =>
        probe.fields.Summary = <<>>

\* C9 amended: the summary is the description when the title was truncated
\* or the description goes on after its first line, and is absent
\* otherwise: a description of one line of at most 256 characters gives no
\* summary.
C9_SummaryIffTitleDiffers ==
    probe.kind = "fields" =>
        probe.fields.Summary
            = IF \/ Len(FirstLine(probe.description)) > 256
                 \/ \E i \in 1..Len(probe.description) : probe.description[i] = "\n"
              THEN probe.description ELSE <<>>

C9_Witness ==
    /\ probe.kind = "fields"
    /\ Len(FirstLine(probe.description)) <= 256
    /\ Len(FirstLine(probe.description)) > 0
    /\ probe.fields.Summary = probe.description
    /\ probe.fields.Title = FirstLine(probe.description)

\* C10: Overlaps(a, b) = Overlaps(b, a).
C10_OverlapsSymmetric ==
    probe.kind = "overlaps" => probe.ab = probe.ba

C10_Witness ==
    /\ probe.kind = "overlaps"
    /\ probe.ab /\ probe.ba
    /\ probe.b.Description = QuoteDescription(probe.a)
    /\ probe.a.Author # probe.b.Author
    /\ probe.a.Location # probe.b.Location

\* b is the quoted copy of a.
QuotedCopy == probe.kind = "overlaps" /\ probe.b.Description = QuoteDescription(probe.a)

\* C11: the quoted copy of a comment, with the timestamp and the resolved
\* state of the comment, overlaps it (in both orders).
C11_QuoteRoundTrip ==
    (QuotedCopy /\ probe.a.Timestamp = probe.b.Timestamp /\ probe.a.Resolved = probe.b.Resolved)
        => probe.ab /\ probe.ba

C11_Witness ==
    /\ QuotedCopy /\ probe.ab /\ probe.ba
    /\ probe.a.Timestamp = probe.b.Timestamp
    /\ probe.a.Resolved = "false" /\ probe.b.Resolved = "false"
    /\ probe.a.Location # probe.b.Location

\* C12: comments whose resolved states differ (one set and one absent, or
\* both set and unequal) do not overlap, whatever their timestamps and
\* descriptions; comments of equal timestamp, description and resolved
\* state overlap.
C12_ResolvedMismatchNeverOverlaps ==
    probe.kind = "overlaps" =>
        /\ probe.a.Resolved # probe.b.Resolved => ~probe.ab /\ ~probe.ba
        /\ (/\ probe.a.Timestamp = probe.b.Timestamp
            /\ probe.a.Description = probe.b.Description
            /\ probe.a.Resolved = probe.b.Resolved) => probe.ab /\ probe.ba

\* The comments of the threads, each before its replies, the replies in
\* their order.
RECURSIVE Preorder(_)
Preorder(threads) ==
    IF threads = <<>> THEN <<>>
    ELSE <<Head(threads).Comment>> \o Preorder(Head(threads).Children) \o Preorder(Tail(threads))

\* The comments of the threads that overlap none of the existing ones.
NotOverlapping(threads, existing) ==
    SelectSeq(Preorder(threads), LAMBDA c : \A i \in 1..Len(existing) : ~Overlaps(c, existing[i]))

\* C14 as stated: FilterOverlapping returns the comments of the threads
\* that overlap no existing comment, parents before replies, and filtering
\* its result against the existing comments and that result gives the
\* result again.
C14_FilterIdempotentOnUnion ==
    probe.kind = "filtered" =>
        /\ probe.filtered = NotOverlapping(probe.threads, probe.existing)
        /\ probe.united = probe.filtered

\* C14 amended: FilterOverlapping returns the comments of the threads that
\* overlap no existing comment, parents before replies; filtering its
\* result against the existing comments gives the result again, and
\* against the existing comments and that result gives nothing.
C14_FilterIdempotent ==
    probe.kind = "filtered" =>
        /\ probe.filtered = NotOverlapping(probe.threads, probe.existing)
        /\ probe.again = probe.filtered
        /\ probe.united = <<>>

C14_Witness ==
    /\ probe.kind = "filtered"
    /\ probe.threads = <<Thread(originalComment, <<Thread(replyComment, <<Thread(copiedComment, <<>>)>>)>>),
                         Thread(misQuotedReject, <<>>)>>
    /\ probe.existing = <<originalComment>>
    /\ probe.filtered = <<replyComment, misQuotedReject>>
    /\ probe.again = probe.filtered

\* C16: the status "success" is translated to "pass", "failure" to "fail",
\* and every other status, the empty one too, to "skip"; the property of a
\* report carries that result.
C16_StatusTranslation ==
    probe.kind = "unit" =>
        /\ probe.report.Status = "success" => probe.result = "pass"
        /\ probe.report.Status = "failure" => probe.result = "fail"
        /\ probe.report.Status \notin {"success", "failure"} => probe.result = "skip"
        /\ \A i \in 1..Len(probe.property) : probe.property[i].Result = probe.result

C16_Witness ==
    /\ probe.kind = "unit"
    /\ probe.report.Status = ""
    /\ probe.result = "skip"
    /\ Len(probe.property) = 1

\* The methods whose error answers are logged.
LoggedMethods == {"differential.close", "user.query", "differential.createinline", "differential.createcomment"}

\* C17: an error answer to any call but differential.close, the lookup of
\* a user and the posting of an inline or a comment ends the process; an
\* error answer to one of these is logged and does not end it.
C17_ErrorFieldIsFatal ==
    Ensured =>
        \A i \in 1..Len(before.answers) :
            before.answers[i].answer = "error" =>
                IF before.answers[i].method \in LoggedMethods
                THEN /\ before.answers[i].method \in before.logged
                     /\ before.answers[i].method \notin before.fatal
                ELSE before.panic

\* C18: a review that is not submitted and whose base commit, head commit
\* or merge base cannot be computed is left for the pass: no panic and no
\* remote mutation (here with every call answered without error).
C18_UncomputableIsSkipped ==
    (Ensured /\ ~before.summary.Submitted /\ ~before.cached
             /\ before.review.Failure \in {"base", "head", "mergebase"} /\ AllOk)
        => ~before.panic /\ CallsTo(Mutations) = {}

\* The steps of the trail of the pass.
Steps == {trail[i] : i \in 1..Len(trail)}

\* C19: a pass that finds the recorded state hash (the hash of the
\* repository as it is once the notes of origin are pulled, where they
\* are) lists no local review, runs no EnsureRequestExists and does not
\* list the open revisions; it goes to ReviewLoop over the cached open
\* revisions, and neither it nor ReviewLoop, while the process lives,
\* changes processedStates or openReviews.
C19_UnchangedPassSkips ==
    /\ []("unchanged" \in Steps =>
            Steps \cap {"ListAll", "EnsureRequestExists", "Details", "ListOpenReviews", "processedStates"} = {})
    /\ [][(/\ pc = "hash" /\ ProcessStep /\ stateHash' # NoHash
           /\ processedStates = <<GetRepoStateHash(local)>>) =>
              /\ pc' = "loop" /\ todo' = openReviews
              /\ "unchanged" \in {trail'[i] : i \in 1..Len(trail')}
              /\ UNCHANGED <<processedStates, openReviews, existingComments, closedRevisionsMap, remote, diffs, calls, before>>]_vars
    /\ [][(pc \in {"loop", "notes"} /\ ProcessStep /\ faults' = faults) =>
              /\ pc' \in {"loop", "notes", "idle"}
              /\ UNCHANGED <<processedStates, openReviews>>]_vars

C19_Witness ==
    /\ pc = "loop" /\ "unchanged" \in Steps /\ "ReviewLoop" \in Steps
    /\ openReviews # <<>>
    /\ processedStates = stateHash

\* The places of diffusion.looksoon in the trail of the pass.
Signals == {i \in 1..Len(trail) : trail[i] = "diffusion.looksoon"}

\* C20 as stated: Differential is told to look at the repository only in
\* a pass that found the state hash changed, and only after processedStates
\* was updated.
C20_RefreshOnlyAfterChange ==
    \A i \in Signals :
        /\ \E j \in 1..(i - 1) : trail[j] = "changed"
        /\ \E j \in 1..(i - 1) : trail[j] = "processedStates"

\* C20 amended: for a repository under /var/repo/, every pass tells
\* Differential to look at it first thing, and a pass that found the state
\* hash changed tells it once more, right after processedStates was
\* updated; a pass that found the hash unchanged sends only the first
\* signal.  No signal is sent for a repository elsewhere.
C20_RefreshAtStartAndAfterChange ==
    IF HasPrefix(repoPath, defaultRepoDirPrefix)
    THEN /\ trail # <<>> => 1 \in Signals
         /\ \A i \in Signals \ {1} :
               /\ trail[i - 1] = "processedStates"
               /\ "changed" \in {trail[j] : j \in 1..(i - 1)}
         /\ \A j \in 1..(Len(trail) - 1) : trail[j] = "processedStates" => (j + 1) \in Signals
         /\ (pc = "loop" /\ "changed" \in Steps) => Cardinality(Signals) = 2
         /\ "unchanged" \in Steps => Signals = {1}
    ELSE Signals = {}

C20_Witness ==
    /\ Cardinality(Signals) = 2
    /\ pc = "loop"
    /\ processedStates = stateHash

\* The step is the test of the state hash at the start of a pass.
PassStartStep == pc = "hash" /\ ProcessStep

\* C21: after an EnsureRequestExists in which the post of an inline comment
\* failed, the next pass over the repository runs the loop over the local
\* reviews, in which the comment is posted again.
C21_FailedPostRetriedNextPass ==
    [][(PassStartStep /\ failedPosts # {}) => pc' = "list"]_vars

\* C22: an error answer to the post of a CI report or of a static analysis
\* report as a diff property is logged and does not end the process:
\* EnsureRequestExists goes on to the comments.
C22_ReportFailureIsLogged ==
    (Ensured /\ ErrorTo("differential.setdiffproperty")) =>
        /\ ~before.panic
        /\ "differential.setdiffproperty" \in before.logged

\* The remote mutation calls of a log of calls, in their order.
MutationCalls(log) == SelectSeq(log, LAMBDA c : c.method \in Mutations)

\* EnsureRequestExists with closedRevisionsMap empty, run to its end
\* with every call answered without error and no one acting meanwhile.
RECURSIVE Uncached(_, _, _, _, _, _)
Uncached(answered, revisions, ds, revision, r, repo) ==
    LET w      == EnsureRequestExists(NewRun(answered, {}), revision, r, 1)
        read   == w.pending[1].method \in Reads
        served == Serve(revisions, ds, w.pending[1], "ok")
    IN  IF w.pending = <<>> THEN w
        ELSE IF read
        THEN Uncached(answered \o w.rec \o <<ReadRepository(repo, revision, w.pending[1])>>, revisions, ds, revision, r, repo)
        ELSE Uncached(answered \o w.rec \o <<served.response>>, served.remote, served.diffs, revision, r, repo)

\* C23: an EnsureRequestExists that closedRevisionsMap cuts short, issuing
\* no call, would issue no remote mutation call with closedRevisionsMap
\* empty either.
C23_CacheIsOnlyPerformance ==
    (/\ pc = "details"
     /\ Head(todo).Revision \in closedRevisionsMap
     /\ local[Head(todo).Revision].Failure # "details")
    => MutationCalls(Uncached(<<>>, remote, diffs, Head(todo).Revision, Head(todo), local).calls) = <<>>

\* C24: the first pass after a start of the process with empty caches runs
\* the loop over all local reviews, and in it EnsureRequestExists creates no
\* revision for a review that has a revision with its commit hash already.
C24_RestartCreatesNoSecondRevision ==
    /\ [][(PassStartStep /\ processedStates = NoHash /\ stateHash' # NoHash) => pc' = "list"]_vars
    /\ [][(pc = "list" /\ ProcessStep) => pc' = "reviews" /\ todo' = Summaries(local)]_vars
    /\ []((/\ processedStates = NoHash /\ pc = "ensure" /\ pending # <<>>
           /\ pending[1].method = "differential.createrevision")
          => \A id \in 1..Len(remote) : ~Holds(remote[id], before.revision))

\* C25: for a revision a query of the run returned as open and without
\* the head commit, EnsureRequestExists creates diffs only of the commits
\* from the merge base of the target ref and the head to the head, and
\* sends updates that carry only the id of the revision and the id of such
\* a diff, and no field; there is at most one diff and one update, and
\* exactly one of each when the run has ended with every call answered
\* without error.
C25_UpdateCarriesOnlyDiff ==
    (Ensured /\ Computable) =>
        \A d \in Queried :
            LET head    == before.commits.Head
                created == CallsOf({"differential.creatediff"}, d.ID)
                updates == CallsOf({"differential.updaterevision"}, d.ID)
            IN  (~ClosedOrAbandoned(d) /\ ~Holds(d, head))
                => /\ \A i \in created :
                         calls[i].request = [base |-> MergeBase(before.summary.TargetRef, head), head |-> head]
                   /\ \A i \in updates :
                         /\ calls[i].request = [id |-> d.ID, diffid |-> calls[i].arg, fields |-> <<>>]
                         /\ diffs[calls[i].arg] = head
                         /\ \E j \in created : j < i /\ calls[j].answer = "ok"
                   /\ Cardinality(created) <= 1 /\ Cardinality(updates) <= 1
                   /\ (before.done /\ ~before.panic /\ AllOk)
                         => Cardinality(created) = 1 /\ Cardinality(updates) = 1

C25_Witness ==
    /\ Done /\ Computable /\ AllOk /\ ~before.panic /\ pc = "reviews"
    /\ \E k \in 1..Len(before.existing) :
          /\ ~ClosedOrAbandoned(before.existing[k])
          /\ ~Holds(before.existing[k], before.commits.Head)
          /\ \E i \in CallsOf({"differential.updaterevision"}, before.existing[k].ID) :
                calls[i].request.fields = <<>> /\ calls[i].answer = "ok"

\* The calls of differential.creatediff answered without a diff and
\* without error.
NoDiffCalls == {i \in 1..Len(calls) : calls[i].method = "differential.creatediff" /\ calls[i].answer = "nodiff"}

\* C26: once differential.creatediff has answered without a diff and
\* without error, the EnsureRequestExists of the review issues no call
\* that creates or updates a revision; the answer does not end the
\* process and changes nothing in Differential, and when the run ends the
\* loop over the reviews goes on to the next review.
C26_NoDiffIsIgnored ==
    /\ [](Ensured =>
            /\ \A i \in NoDiffCalls :
                  \A j \in CallsTo({"differential.createrevision", "differential.updaterevision"}) : j < i
            /\ "differential.creatediff" \in before.fatal => ErrorTo("differential.creatediff"))
    /\ [][(/\ ProcessStep /\ pc = "ensure" /\ pending # <<>>
           /\ pending[1].method = "differential.creatediff"
           /\ before'.answers[Len(before'.answers)].answer = "nodiff")
          => /\ ~before'.panic
             /\ remote' = remote /\ diffs' = diffs
             /\ before'.done => pc' = "reviews" /\ todo' = Tail(todo)]_vars

\* The revision the run created, if Differential answered its creation
\* without error.
NewRevisions == {calls[i].rev : i \in Made({"differential.createrevision"})}

\* C27 as stated: when no revision references the review, the diff created
\* before the revision is of the commits from the base commit to the head
\* commit, and after the update step the hashes of the revision hold the
\* head commit.
C27_FirstDiffBaseToHead ==
    (FirstMirroringOfAny /\ Computable) =>
        /\ \A i \in FirstDiffs :
              calls[i].request = [base |-> GetBaseCommit(before.revision), head |-> before.commits.Head]
        /\ \A id \in NewRevisions :
              (before.done /\ CallsOf({"differential.updaterevision"}, id) \cap Made({"differential.updaterevision"}) # {})
                  => Holds(remote[id], before.commits.Head)

\* C27 amended: the diff created before the revision is of the commits
\* from the base commit to the first commit of the review, and the
\* revision made of it holds the first commit; the update step, run for
\* each revision the second query returns, creates a diff for the new
\* revision when it is open and the head is a later commit, from the merge
\* base to the head, and once the update is answered the revision holds
\* the head commit.
C27_FirstDiffBaseToFirstCommit ==
    (FirstMirroringOfAny /\ before.read /\ before.commits.Failure = "none") =>
        /\ Cardinality(FirstDiffs) <= 1
        /\ \A i \in FirstDiffs :
              calls[i].request = [base |-> GetBaseCommit(before.revision), head |-> before.revision]
        /\ \A id \in NewRevisions :
              /\ Holds(remote[id], before.revision)
              /\ \A j \in CallsOf({"differential.creatediff"}, id) :
                    /\ before.commits.Head # before.revision
                    /\ calls[j].request = [base |-> MergeBase(before.summary.TargetRef, before.commits.Head),
                                           head |-> before.commits.Head]
              /\ \A j \in CallsOf({"differential.updaterevision"}, id) :
                    /\ diffs[calls[j].arg] = before.commits.Head
                    /\ calls[j].answer = "ok" => Holds(remote[id], before.commits.Head)
              /\ before.commits.Head = before.revision => Holds(remote[id], before.commits.Head)
              /\ \A k \in 1..Len(before.again) :
                    (/\ before.done /\ ~before.panic
                     /\ before.again[k].ID = id
                     /\ ~ClosedOrAbandoned(before.again[k])
                     /\ before.commits.Head # before.revision)
                    => /\ Cardinality(CallsOf({"differential.creatediff"}, id)) = 1
                       /\ \A j \in CallsOf({"differential.creatediff"}, id) :
                             calls[j].answer = "ok"
                                 => Cardinality(CallsOf({"differential.updaterevision"}, id)) = 1

C27_Witness ==
    /\ FirstMirroringOfAny /\ Done /\ ~before.panic
    /\ before.commits.Head # before.revision
    /\ \E id \in NewRevisions :
          /\ remote[id].Hashes = <<before.revision, before.commits.Head>>
          /\ CallsOf({"differential.updaterevision"}, id) # {}
    /\ \E i \in FirstDiffs : calls[i].request.head = before.revision

\* The step is one turn of ReviewLoop, which loads the comments of an open
\* revision from Differential.
MirrorRemoteStep == pc = "loop" /\ todo # <<>> /\ ProcessStep

\* A submitted review is recorded in closedRevisionsMap by its
\* EnsureRequestExists whatever Differential answered, it stays recorded
\* while the process lives, and EnsureRequestExists issues no call for a
\* recorded revision.
RecordedAsClosed ==
    /\ [][(/\ ProcessStep /\ pc = "ensure" /\ todo # <<>>
           /\ todo' = Tail(todo) /\ Head(todo).Submitted)
          => Head(todo).Revision \in closedRevisionsMap']_vars
    /\ [][closedRevisionsMap \subseteq closedRevisionsMap'
             \/ (closedRevisionsMap' = {} /\ processedStates' = NoHash /\ pc' = "idle")]_vars
    /\ [][(/\ ProcessStep /\ pc = "details"
           /\ Head(todo).Revision \in closedRevisionsMap)
          => /\ pending' = <<>> /\ pc' = "reviews" /\ todo' = Tail(todo)
             /\ UNCHANGED <<remote, diffs>>
             /\ trail' = Append(trail, "Details") \/ calls' = <<>>]_vars
    /\ [](\A i, j \in 1..Len(closeCalls) : closeCalls[i] = closeCalls[j] => i = j)

\* C28 as stated: once a submitted review has been processed its revision
\* is recorded as closed, also when the close was answered with an error,
\* and no later pass issues a close or any other remote call for it (a
\* pass that finds the state hash unchanged is a later pass than the one
\* that recorded the revision).
C28_NoLaterRemoteCall ==
    /\ RecordedAsClosed
    /\ [][~(/\ MirrorRemoteStep
             /\ "unchanged" \in Steps
             /\ GetFirstCommit(Head(todo)) \in closedRevisionsMap)]_vars

\* C28 amended: once a submitted review has been processed its revision is
\* recorded as closed, also when the close was answered with an error, and
\* no later EnsureRequestExists of the process issues a close or any other
\* call for it.
C28_NoLaterCallByEnsure == RecordedAsClosed

C28_Witness ==
    /\ Done /\ before.cached /\ before.summary.Submitted /\ calls = <<>>
    /\ pc = "reviews" /\ before.revision \in closedRevisionsMap
    /\ \E id \in 1..Len(remote) : Holds(remote[id], before.revision) /\ ~ClosedOrAbandoned(remote[id])

\* The root comment is on the review as a whole or nowhere, or at a commit
\* that is the last commit of no diff of the revision.
Unplaced(c) ==
    \/ c.Location = NoLocation
    \/ c.Location.Path = ""
    \/ \A k \in 1..Len(probe.diffIDs) : DiffCommits[probe.diffIDs[k]] # c.Location.Commit

RECURSIVE Flatten(_)
Flatten(lists) == IF lists = <<>> THEN <<>> ELSE Head(lists) \o Flatten(Tail(lists))

\* C29: a thread whose root has no file path, or whose root's commit has no
\* diff in the revision, gives no inline request, for the root or for a
\* reply; the requests of a list of threads are those of its other threads,
\* and there is no comment request when there is no inline request.
C29_UnplacedThreadNotPosted ==
    probe.kind = "requests" =>
        /\ \A i \in 1..Len(probe.threads) : Unplaced(probe.threads[i].Comment) => probe.each[i] = <<>>
        /\ probe.inlines = Flatten(probe.each)
        /\ (\A i \in 1..Len(probe.threads) : Unplaced(probe.threads[i].Comment))
              => probe.inlines = <<>> /\ probe.comments = <<>>

C29_Witness ==
    /\ probe.kind = "requests" /\ Len(probe.threads) = 2
    /\ probe.threads[1].Comment.Location.Path = "" /\ probe.threads[1].Comment.Location.Commit = "r1"
    /\ probe.threads[1].Children = <<Thread(PlacedReply, <<>>)>>
    /\ probe.threads[2].Comment.Location.Commit = "r1b" /\ probe.threads[2].Children = <<Thread(PlacedReply, <<>>)>>
    /\ probe.diffIDs = <<1>> /\ probe.existing = <<>>
    /\ probe.inlines = <<>> /\ probe.comments = <<>>

\* C30: among the calls of one EnsureRequestExists, for each revision every
\* differential.createinline comes before the differential.createcomment,
\* there is never more than one differential.createcomment and none
\* without a differential.createinline, and when the call has ended without
\* ending the process there is exactly one when there is a
\* differential.createinline, whether the inline posts were answered with
\* an error or not; the comment request attaches the inlines.
C30_InlinesBeforeOneComment ==
    Ensured =>
        \A id \in 1..Len(remote) :
            LET inlines  == CallsOf({"differential.createinline"}, id)
                comments == CallsOf({"differential.createcomment"}, id)
            IN  /\ \A i \in inlines, j \in comments : i < j
                /\ Cardinality(comments) <= 1
                /\ comments # {} => inlines # {}
                /\ (before.done /\ ~before.panic /\ inlines # {}) => Cardinality(comments) = 1
                /\ \A j \in comments :
                      calls[j].request = [RevisionID |-> id, Action |-> "comment", AttachInlines |-> TRUE]

C30_Witness ==
    /\ Done /\ ~before.panic /\ ErrorTo("differential.createinline")
    /\ \E id \in 1..Len(remote) :
          /\ Cardinality(CallsOf({"differential.createinline"}, id)) = 2
          /\ \E j \in CallsOf({"differential.createcomment"}, id) : calls[j].request.AttachInlines
          /\ Cardinality(CallsOf({"differential.createcomment"}, id)) = 1
          /\ Len(remote[id].Comments) = 1

====
